---- MODULE Spec2Model ----
(***************************************************************************)
(* A model of the archive / inverted-index / phrase-search core:           *)
(*   - the Boolean operations on postings lists (phrase.go),               *)
(*   - the order-restoring unshuffler (CreateXMLUnshuffler),               *)
(*   - the k-way merge manifold (invert.go, CreateManifold),               *)
(*   - the archive stashers and fetchers (CreateStashers, CreateFetchers). *)
(* Each subsystem has its own specification; the variables of the other    *)
(* subsystems stay at their idle values.                                   *)
(***************************************************************************)
EXTENDS Integers, Sequences, FiniteSets, TLC

VARIABLES
    \* ---- Boolean operations on postings lists
    opN, opM, opC,      \* the operand slices
    opKind,             \* which operation has been applied ("none" before)
    opRes, opRes2,      \* its result(s)
    \* ---- unshuffler
    uAll,               \* every record sent on the unshuffler's input channel
    uInp,               \* the records still to arrive on inp (closed when empty)
    uHeapSize,          \* heapSize
    hp,                 \* the xmlRecordHeap
    next,               \* index of next desired result
    delay,
    uOut,               \* the records sent on out
    uPc,                \* where xmlUnshuffler stands
    \* ---- manifold
    mAll,               \* what each presenter sends on its channel, per shard
    mInp,               \* what is still to arrive on each presenter channel
    php,                \* the PlexHeap
    arry,               \* strings collected for the current identifier
    prevIdent,
    rec,
    mOut,               \* the Plex records sent on out
    mChn,               \* the channel the first loop reads next
    mPc,                \* where xmlManifold stands
    \* ---- stashers and fetchers
    sAll,               \* the records the producer sends, in order
    sInp,               \* the records still in the stashers' input channel
    sZipp,              \* zipp of CreateStashers
    fZipp,              \* zipp of CreateFetchers
    inUse,              \* map to track files currently being written
    files,              \* the archive: path -> contents
    sPc,                \* where each xmlStasher goroutine stands
    sExt,               \* the record each xmlStasher is working on
    attempts,
    sOutcome,           \* how stashRecord ended, per record index
    sOut,               \* the identifiers sent on out
    fPc,                \* where the fetch stands
    fLine,              \* the record whose identifier was given to the uid reader
    fRes,               \* what fetchRecord returned
    \* ---- query evaluation
    qDocs,              \* the indexed documents: uid -> its words, in order
    qClauses,           \* clauses of evaluateQuery: the tokens of the query
    qPc,                \* "ready", then what has been run
    qData,              \* the uids returned
    qOfst,              \* the positions returned, per uid
    qHalt,              \* "" for a normal end, "exit" for os.Exit(1), "panic"
    \* ---- mergers (fusePostings)
    gInp,               \* the Plex records still in the mergers' input channel
    gAll,               \* every Plex record sent to the mergers
    gPc,                \* where each xmlMerger goroutine stands
    gStr,               \* the fused record each xmlMerger is about to send
    gOut,               \* the records sent on out
    \* ---- indexer (processClause) and promoter (xmlPromoter)
    xPc,                \* where the indexer stands
    xParas,             \* the elements of the document indexed so far
    cumulative,         \* processClause's word counter
    xPos,               \* the positions addItem recorded for the term
    pRecs,              \* the InvDocument records processOneField has yet to read
    pTag,               \* processOneField's tag
    pPc,                \* where processOneField stands
    pBuf,               \* the counters termPos, postPos, ofstPos and the five buffers
    pAdded,             \* the arguments of the calls of addOnePosting so far
    pFiles,             \* the files written by writeFiveFiles
    \* ---- splitter (xmlSplitter)
    tInp,               \* the records still in the splitter's input channel
    tPc,                \* where xmlSplitter stands
    fl,                 \* the name of the open bucket file, <<>> for nil
    wrtr,               \* the records written to the open bucket file
    currTag,
    prevTag,
    prev,               \* the previous record, <<>> for XMLRecord{}
    tClosed,            \* the bucket files closed so far: name and records
    tOut,               \* the names sent on out
    \* ---- archive and postings paths
    aPc,                \* "start", then "done" or "skipped"
    aId,                \* the identifier handed to stashRecord
    aDir,               \* the directory of its file below the archive root
    aBase,              \* the name of its file without the suffix
    kPc,                \* "start", then "done"
    kInp,               \* the field and the two terms handed to PostingPath
    kRes,               \* for each term, what PostingPath returns
    \* ---- dispensers (xmlDispenser)
    dAll,               \* every IdxDocument record sent on inp, as its elements
    dInp,               \* the numbers of the records still in inp
    dPc,                \* where each dispenser stands
    dCur,               \* its record: the number and the elements still to stream
    currUID,            \* its currUID
    inverted,           \* the inverted map: term -> postings [fld, uid, pos]
    dPosted,            \* the numbers of the records that added a posting
    dOut,               \* the slices sent on out
    \* ---- lookups in the promoted store (getPostingIDs on the files)
    lStore,             \* the promoted files of one field: bucket key -> files
    lTerm,              \* the term asked for
    lSimple,            \* the argument simple
    lPc,                \* "start", then "done"
    lRes,               \* what getPostingIDs returns
    \* ---- the fetchers and the closing of the output channels
    rLines,             \* the lines of identifiers that uidReader reads
    rInp,               \* the records on the channel from uidReader
    ePc,                \* per xmlFetcher goroutine: "recv", "send", "done"
    eExt,               \* per xmlFetcher goroutine: the record to send
    closes              \* per pool of goroutines: the calls of close(out)

setVars == <<opN, opM, opC, opKind, opRes, opRes2>>

unshVars == <<uAll, uInp, uHeapSize, hp, next, delay, uOut, uPc>>

mergeVars == <<mAll, mInp, php, arry, prevIdent, rec, mOut, mChn, mPc>>

stashVars == <<sAll, sInp, sZipp, fZipp, inUse, files, sPc, sExt, attempts,
               sOutcome, sOut, fPc, fLine, fRes>>

queryVars == <<qDocs, qClauses, qPc, qData, qOfst, qHalt>>

fuseVars == <<gInp, gAll, gPc, gStr, gOut>>

indexVars == <<xPc, xParas, cumulative, xPos>>

promVars == <<pRecs, pTag, pPc, pBuf, pAdded, pFiles>>

\* the subsystems that follow the stashers in this module
splitVars == <<tInp, tPc, fl, wrtr, currTag, prevTag, prev, tClosed, tOut>>

pathVars == <<aPc, aId, aDir, aBase, kPc, kInp, kRes>>

\* the subsystems that follow the splitter
dispVars == <<dAll, dInp, dPc, dCur, currUID, inverted, dPosted, dOut>>

lookVars == <<lStore, lTerm, lSimple, lPc, lRes>>

poolVars == <<rLines, rInp, ePc, eExt, closes>>

lateVars == <<pathVars, dispVars, lookVars, poolVars>>

restVars == <<queryVars, fuseVars, indexVars, promVars, splitVars, lateVars>>

vars == <<setVars, unshVars, mergeVars, stashVars, restVars>>

notSetVars == <<unshVars, mergeVars, stashVars, restVars>>

notUnshVars == <<setVars, mergeVars, stashVars, restVars>>

notMergeVars == <<setVars, unshVars, stashVars, restVars>>

notStashVars == <<setVars, unshVars, mergeVars, restVars>>

notQueryVars ==
    <<setVars, unshVars, mergeVars, stashVars, fuseVars, indexVars, promVars, splitVars, lateVars>>

notFuseVars ==
    <<setVars, unshVars, mergeVars, stashVars, queryVars, indexVars, promVars, splitVars, lateVars>>

notPromVars ==
    <<setVars, unshVars, mergeVars, stashVars, queryVars, fuseVars, indexVars, splitVars, lateVars>>

\* all but the indexer and the promoter
notPipeVars ==
    <<setVars, unshVars, mergeVars, stashVars, queryVars, fuseVars, splitVars, lateVars>>

notSplitVars ==
    <<setVars, unshVars, mergeVars, stashVars, queryVars, fuseVars, indexVars, promVars, lateVars>>

notIndexVars ==
    <<setVars, unshVars, mergeVars, stashVars, queryVars, fuseVars, promVars, splitVars, lateVars>>

(***************************************************************************)
(* Go slices of int32.  A nil slice and an empty non-nil slice have the    *)
(* same length but are told apart by the `== nil` tests of the code; an    *)
(* out-of-range index is a run-time panic.                                 *)
(***************************************************************************)
NilSlice == [kind |-> "nil", a |-> <<>>]

Slice(s) == [kind |-> "slice", a |-> s]

Panic == [kind |-> "panic", a |-> <<>>]

IsNil(S) == S.kind = "nil"

\* largest uid of the operand lists
MaxUid == 3

RECURSIVE AscSeqsFrom(_)
\* the strictly ascending sequences over lo..MaxUid
AscSeqsFrom(lo) ==
    IF lo > MaxUid THEN {<<>>}
    ELSE AscSeqsFrom(lo + 1) \cup {<<lo>> \o s : s \in AscSeqsFrom(lo + 1)}

AscSeqs == AscSeqsFrom(1)

Slices == {NilSlice} \cup {Slice(s) : s \in AscSeqs}

Range(s) == {s[x] : x \in DOMAIN s}

IsStrictlyAscending(s) == \A x \in 1..(Len(s) - 1) : s[x] < s[x + 1]

(***************************************************************************)
(* intersectIDs: i, j are the 1-based forms of the code's 0-based i, j;    *)
(* res is res[:k].                                                         *)
(***************************************************************************)
RECURSIVE intersectLoop(_, _, _, _, _)
intersectLoop(N, M, i, j, res) ==
    IF N[i] < M[j] THEN
        IF i = Len(N) THEN res ELSE intersectLoop(N, M, i + 1, j, res)
    ELSE IF N[i] > M[j] THEN
        IF j = Len(M) THEN res ELSE intersectLoop(N, M, i, j + 1, res)
    ELSE
        IF i = Len(N) \/ j = Len(M) THEN Append(res, N[i])
        ELSE intersectLoop(N, M, i + 1, j + 1, Append(res, N[i]))

intersectIDs(N, M) ==
    IF IsNil(N) THEN M
    ELSE IF IsNil(M) THEN N
    ELSE LET swap == Len(N.a) < Len(M.a)
             big == IF swap THEN M ELSE N
             small == IF swap THEN N ELSE M
         IN  IF Len(small.a) < 1 THEN big
             ELSE Slice(intersectLoop(big.a, small.a, 1, 1, <<>>))

(***************************************************************************)
(* combineIDs                                                              *)
(***************************************************************************)
RECURSIVE combineLoopKeepBoth(_, _, _, _, _)
\* a merge that does not advance j on a common uid
combineLoopKeepBoth(N, M, i, j, res) ==
    IF i <= Len(N) /\ j <= Len(M) THEN
        IF N[i] <= M[j] THEN combineLoopKeepBoth(N, M, i + 1, j, Append(res, N[i]))
        ELSE combineLoopKeepBoth(N, M, i, j + 1, Append(res, M[j]))
    ELSE IF i <= Len(N) THEN combineLoopKeepBoth(N, M, i + 1, j, Append(res, N[i]))
    ELSE IF j <= Len(M) THEN combineLoopKeepBoth(N, M, i, j + 1, Append(res, M[j]))
    ELSE res

RECURSIVE combineLoop(_, _, _, _, _)
combineLoop(N, M, i, j, res) ==
    IF i <= Len(N) /\ j <= Len(M) THEN
        IF N[i] < M[j] THEN combineLoop(N, M, i + 1, j, Append(res, N[i]))
        ELSE IF N[i] > M[j] THEN combineLoop(N, M, i, j + 1, Append(res, M[j]))
        ELSE combineLoop(N, M, i + 1, j + 1, Append(res, N[i]))
    ELSE IF i <= Len(N) THEN combineLoop(N, M, i + 1, j, Append(res, N[i]))
    ELSE IF j <= Len(M) THEN combineLoop(N, M, i, j + 1, Append(res, M[j]))
    ELSE res

combineIDs(N, M) ==
    IF IsNil(N) THEN M
    ELSE IF IsNil(M) THEN N
    ELSE LET swap == Len(N.a) < Len(M.a)
             big == IF swap THEN M ELSE N
             small == IF swap THEN N ELSE M
         IN  IF Len(small.a) < 1 THEN big
             ELSE Slice(combineLoop(big.a, small.a, 1, 1, <<>>))

(***************************************************************************)
(* excludeIDs: no swap; the loop ends as soon as either list is used up,   *)
(* and nothing is copied after the loop.  `en, em := N[i], M[j]` indexes   *)
(* N[0] before any length test of N.                                       *)
(***************************************************************************)
RECURSIVE excludeLoop(_, _, _, _, _)
excludeLoop(N, M, i, j, res) ==
    IF N[i] < M[j] THEN
        IF i = Len(N) THEN Append(res, N[i])
        ELSE excludeLoop(N, M, i + 1, j, Append(res, N[i]))
    ELSE IF N[i] > M[j] THEN
        IF j = Len(M) THEN res ELSE excludeLoop(N, M, i, j + 1, res)
    ELSE
        IF i = Len(N) \/ j = Len(M) THEN res
        ELSE excludeLoop(N, M, i + 1, j + 1, res)

excludeIDs(N, M) ==
    IF IsNil(N) THEN NilSlice
    ELSE IF IsNil(M) THEN N
    ELSE IF Len(M.a) < 1 THEN N
    ELSE IF Len(N.a) < 1 THEN Panic
    ELSE Slice(excludeLoop(N.a, M.a, 1, 1, <<>>))

(***************************************************************************)
(* Specification of the Boolean operations: the operands are drawn from    *)
(* the strictly ascending uid lists (and nil), then one operation of the   *)
(* evaluator is applied to them.                                           *)
(***************************************************************************)
SetIdle ==
    /\ opN = NilSlice /\ opM = NilSlice /\ opC = NilSlice
    /\ opKind = "idle" /\ opRes = NilSlice /\ opRes2 = NilSlice

UnshIdle ==
    /\ uAll = <<>> /\ uInp = <<>> /\ uHeapSize = 0 /\ hp = <<>>
    /\ next = 1 /\ delay = 0 /\ uOut = <<>> /\ uPc = "idle"

MergeIdle ==
    /\ mAll = <<>> /\ mInp = <<>> /\ php = <<>> /\ arry = <<>>
    /\ prevIdent = 0 /\ rec = 0 /\ mOut = <<>> /\ mChn = 1 /\ mPc = "idle"

StashIdle ==
    /\ sAll = <<>> /\ sInp = <<>> /\ sZipp = FALSE /\ fZipp = FALSE
    /\ inUse = <<>> /\ files = <<>> /\ sPc = <<>> /\ sExt = <<>>
    /\ attempts = <<>> /\ sOutcome = <<>> /\ sOut = <<>>
    /\ fPc = "idle" /\ fLine = 0 /\ fRes = <<>>

QueryIdle ==
    /\ qDocs = <<>> /\ qClauses = <<>> /\ qPc = "idle"
    /\ qData = NilSlice /\ qOfst = <<>> /\ qHalt = ""

FuseIdle == gInp = <<>> /\ gAll = <<>> /\ gPc = <<>> /\ gStr = <<>> /\ gOut = <<>>

IndexIdle == xPc = "idle" /\ xParas = <<>> /\ cumulative = 0 /\ xPos = <<>>

PromIdle ==
    /\ pRecs = <<>> /\ pTag = <<>> /\ pPc = "idle" /\ pBuf = <<>>
    /\ pAdded = <<>> /\ pFiles = <<>>

SplitIdle ==
    /\ tInp = <<>> /\ tPc = "idle" /\ fl = <<>> /\ wrtr = <<>> /\ currTag = <<>>
    /\ prevTag = <<>> /\ prev = <<>> /\ tClosed = <<>> /\ tOut = <<>>

PathIdle ==
    /\ aPc = "idle" /\ aId = <<>> /\ aDir = <<>> /\ aBase = <<>>
    /\ kPc = "idle" /\ kInp = <<>> /\ kRes = <<>>

DispIdle ==
    /\ dAll = <<>> /\ dInp = <<>> /\ dPc = <<>> /\ dCur = <<>> /\ currUID = <<>>
    /\ inverted = <<>> /\ dPosted = {} /\ dOut = <<>>

LookIdle ==
    lStore = <<>> /\ lTerm = <<>> /\ lSimple = FALSE /\ lPc = "idle" /\ lRes = <<>>

NoCloses == [stashers |-> 0, fetchers |-> 0, mergers |-> 0]

PoolIdle ==
    rLines = <<>> /\ rInp = <<>> /\ ePc = <<>> /\ eExt = <<>> /\ closes = NoCloses

LateIdle == PathIdle /\ DispIdle /\ LookIdle /\ PoolIdle

RestIdle == QueryIdle /\ FuseIdle /\ IndexIdle /\ PromIdle /\ SplitIdle /\ LateIdle

InitSetOps ==
    /\ RestIdle
    /\ UnshIdle
    /\ MergeIdle
    /\ StashIdle
    /\ opN \in Slices
    /\ opM \in Slices
    /\ opC \in Slices
    /\ opKind = "none"
    /\ opRes = NilSlice
    /\ opRes2 = NilSlice

\* excl: data = excludeIDs(data, next)
ApplyExclude ==
    /\ opKind = "none"
    /\ opKind' = "exclude"
    /\ opRes' = excludeIDs(opN, opM)
    /\ UNCHANGED <<opN, opM, opC, opRes2>>
    /\ UNCHANGED notSetVars

\* term: data = intersectIDs(data, next)
ApplyIntersect ==
    /\ opKind = "none"
    /\ opKind' = "intersect"
    /\ opRes' = intersectIDs(opN, opM)
    /\ UNCHANGED <<opN, opM, opC, opRes2>>
    /\ UNCHANGED notSetVars

\* expr: data = combineIDs(data, next)
ApplyCombine ==
    /\ opKind = "none"
    /\ opKind' = "combine"
    /\ opRes' = combineIDs(opN, opM)
    /\ UNCHANGED <<opN, opM, opC, opRes2>>
    /\ UNCHANGED notSetVars

\* A & (B | C) and (A & B) | (A & C), with A = opN, B = opM, C = opC
ApplyDistribute ==
    /\ opKind = "none"
    /\ opKind' = "distribute"
    /\ opRes' = intersectIDs(opN, combineIDs(opM, opC))
    /\ opRes2' = combineIDs(intersectIDs(opN, opM), intersectIDs(opN, opC))
    /\ UNCHANGED <<opN, opM, opC>>
    /\ UNCHANGED notSetVars

NextSetOps ==
    \/ ApplyExclude
    \/ ApplyIntersect
    \/ ApplyCombine
    \/ ApplyDistribute

SpecSetOps == InitSetOps /\ [][NextSetOps]_vars

(***************************************************************************)
(* Claims about the Boolean operations (checked under SpecSetOps)          *)
(***************************************************************************)
Elems(S) == S.a

Keep(s, T) == SelectSeq(s, LAMBDA u : u \in T)

Drop(s, T) == SelectSeq(s, LAMBDA u : u \notin T)

\* C8: for all strictly ascending uid lists N and M, excludeIDs(N, M) returns
\* exactly the elements of N that do not appear in M, in ascending order.
C8_ExcludeIsDifference ==
    opKind = "exclude" =>
        /\ opRes.kind # "panic"
        /\ Elems(opRes) = Drop(Elems(opN), Range(Elems(opM)))

\* C9: for all strictly ascending uid lists N and M, including empty ones,
\* intersectIDs(N, M) returns exactly the uids present in both lists, in
\* ascending order.
C9_IntersectIsIntersection ==
    opKind = "intersect" =>
        Elems(opRes) = Keep(Elems(opN), Range(Elems(opM)))

\* C10: for all strictly ascending uid lists A, B, C (including empty lists),
\* intersect(A, union(B, C)) = union(intersect(A, B), intersect(A, C)).
C10_Distributive ==
    opKind = "distribute" => Elems(opRes) = Elems(opRes2)

\* the strictly ascending list of the uids of T
AscendingListOf(T) == CHOOSE s \in AscSeqs : Range(s) = T

\* C11: for all strictly ascending uid lists N and M, combineIDs(N, M) is the
\* strictly ascending list of the set union of N and M, every common uid
\* appearing once, and combineIDs(N, M) = combineIDs(M, N).
C11_CombineIsUnion ==
    opKind = "combine" =>
        /\ opRes.kind # "panic"
        /\ IsStrictlyAscending(Elems(opRes))
        /\ Elems(opRes) = AscendingListOf(Range(Elems(opN)) \cup Range(Elems(opM)))
        /\ Elems(opRes) = Elems(combineIDs(opM, opN))

\* a union of two lists that share a uid and each have a uid of their own
C11_Witness ==
    /\ opKind = "combine"
    /\ Range(Elems(opN)) \cap Range(Elems(opM)) # {}
    /\ Range(Elems(opN)) \ Range(Elems(opM)) # {}
    /\ Range(Elems(opM)) \ Range(Elems(opN)) # {}
    /\ Elems(opRes) = <<1, 2, 3>>

(***************************************************************************)
(* container/heap over xmlRecordHeap.  h is the heap's slice, 1-based      *)
(* here: the element at index i of the code is h[i + 1].                   *)
(***************************************************************************)
\* the number of records sent to the unshuffler
MaxRecs == 4

\* the largest heapSize tried
MaxHeapSize == 2

Texts == {"", "x"}

XMLRecords == [Index : 1..MaxRecs, Text : Texts]

RECURSIVE SeqsUpTo(_, _)
\* the sequences over S of length at most n
SeqsUpTo(S, n) ==
    IF n = 0 THEN {<<>>}
    ELSE LET shorter == SeqsUpTo(S, n - 1)
         IN  shorter \cup {Append(q, x) : q \in {r \in shorter : Len(r) = n - 1}, x \in S}

Swap(h, i, j) == [h EXCEPT ![i] = h[j], ![j] = h[i]]

xmlLessFlipped(h, i, j) == h[i].Index > h[j].Index

xmlLess(h, i, j) == h[i].Index < h[j].Index

RECURSIVE xmlUp(_, _)
xmlUp(h, j) ==
    IF j = 1 THEN h
    ELSE LET i == j \div 2     \* parent
         IN  IF ~xmlLess(h, j, i) THEN h ELSE xmlUp(Swap(h, i, j), i)

RECURSIVE xmlDown(_, _, _)
xmlDown(h, i, n) ==
    LET j1 == 2 * i            \* left child
    IN  IF j1 > n THEN h
        ELSE LET j == IF j1 + 1 <= n /\ xmlLess(h, j1 + 1, j1) THEN j1 + 1 ELSE j1
             IN  IF ~xmlLess(h, j, i) THEN h ELSE xmlDown(Swap(h, i, j), j, n)

\* heap.Push(hp, x)
xmlHeapPush(h, x) == xmlUp(Append(h, x), Len(h) + 1)

\* heap.Pop(hp): the slice after Swap(0, n) and down(0, n); the popped record
\* is its last element
xmlHeapSifted(h) == xmlDown(Swap(h, 1, Len(h)), 1, Len(h) - 1)

xmlHeapTop(h) == xmlHeapSifted(h)[Len(h)]

xmlHeapRest(h) == SubSeq(xmlHeapSifted(h), 1, Len(h) - 1)

(***************************************************************************)
(* xmlUnshuffler                                                           *)
(***************************************************************************)
InitUnsh ==
    /\ RestIdle
    /\ SetIdle
    /\ MergeIdle
    /\ StashIdle
    /\ uAll \in SeqsUpTo(XMLRecords, MaxRecs)
    /\ uInp = uAll
    /\ uHeapSize \in 0..MaxHeapSize
    /\ hp = <<>>
    /\ next = 1
    /\ delay = 0
    /\ uOut = <<>>
    /\ uPc = "recv"

unshSendNonEmpty(out, curr) ==
    IF curr.Text = "" THEN out ELSE Append(out, [Index |-> curr.Index, Text |-> curr.Text])

\* out <- XMLRecord{curr.Index, curr.Ident, curr.Text, curr.Data}
unshSend(out, curr) == Append(out, [Index |-> curr.Index, Text |-> curr.Text])

\* for ext := range inp: push the record, then wait for more or look at the heap
UnshReceive ==
    /\ uPc = "recv"
    /\ uInp # <<>>
    /\ hp' = xmlHeapPush(hp, Head(uInp))
    /\ uInp' = Tail(uInp)
    /\ IF delay < uHeapSize
       THEN delay' = delay + 1 /\ uPc' = "recv"
       ELSE delay' = 0 /\ uPc' = "drain"
    /\ UNCHANGED <<uAll, uHeapSize, next, uOut>>
    /\ UNCHANGED notUnshVars

\* one turn of `for hp.Len() > 0`
UnshDrain ==
    /\ uPc = "drain"
    /\ IF Len(hp) = 0
       THEN uPc' = "recv" /\ UNCHANGED <<hp, uOut, next>>
       ELSE LET curr == xmlHeapTop(hp)
                rest == xmlHeapRest(hp)
            IN  IF curr.Index > next
                THEN /\ hp' = xmlHeapPush(rest, curr)
                     /\ uPc' = "recv"
                     /\ UNCHANGED <<uOut, next>>
                ELSE /\ hp' = rest
                     /\ uOut' = unshSend(uOut, curr)
                     /\ next' = IF curr.Index = next THEN next + 1 ELSE next
                     /\ uPc' = "drain"
    /\ UNCHANGED <<uAll, uInp, uHeapSize, delay>>
    /\ UNCHANGED notUnshVars

\* inp is closed and empty: the range loop ends
UnshInputClosed ==
    /\ uPc = "recv"
    /\ uInp = <<>>
    /\ uPc' = "flush"
    /\ UNCHANGED <<uAll, uInp, uHeapSize, hp, next, delay, uOut>>
    /\ UNCHANGED notUnshVars

\* flush remainder of heap to output, then the deferred close(out)
UnshFlush ==
    /\ uPc = "flush"
    /\ IF Len(hp) > 0
       THEN /\ hp' = xmlHeapRest(hp)
            /\ uOut' = unshSend(uOut, xmlHeapTop(hp))
            /\ uPc' = "flush"
       ELSE /\ uPc' = "done"
            /\ UNCHANGED <<hp, uOut>>
    /\ UNCHANGED <<uAll, uInp, uHeapSize, next, delay>>
    /\ UNCHANGED notUnshVars

NextUnsh ==
    \/ UnshReceive
    \/ UnshDrain
    \/ UnshInputClosed
    \/ UnshFlush

SpecUnsh == InitUnsh /\ [][NextUnsh]_vars

(***************************************************************************)
(* Claims about the unshuffler (checked under SpecUnsh)                    *)
(***************************************************************************)
Indices(s) == [x \in DOMAIN s |-> s[x].Index]

\* the records carry the distinct indices 1..n, in some order
IsPermutation(s) == \A x \in 1..Len(s) : \E y \in DOMAIN s : s[y].Index = x

BagOfSeq(s) == [r \in Range(s) |-> Cardinality({x \in DOMAIN s : s[x] = r})]

\* C4: for input records carrying the distinct indices 1..n and arriving in
\* any order, with any heapSize, the indices emitted by the unshuffler are
\* exactly 1, 2, ..., n in strictly ascending order.
C4_UnshufflerOrder ==
    IsPermutation(uAll) =>
        /\ \A x \in DOMAIN uOut : uOut[x].Index = x
        /\ uPc = "done" => Indices(uOut) = [x \in 1..Len(uAll) |-> x]

C4_Witness ==
    /\ uPc = "done"
    /\ IsPermutation(uAll)
    /\ Len(uAll) >= 3
    /\ uAll[1].Index = 3
    /\ uAll[2].Index = 1
    /\ uHeapSize = 1

\* C5: the unshuffler emits exactly one output record per input record it
\* receives, including records whose text is empty: nothing is lost or
\* duplicated on the way, and when the output is closed the multiset of
\* emitted records equals the multiset of received records.
C5_OnePerInput ==
    /\ BagOfSeq(uOut \o hp \o uInp) = BagOfSeq(uAll)
    /\ uPc = "done" => BagOfSeq(uOut) = BagOfSeq(uAll)

C5_Witness ==
    /\ uPc = "done"
    /\ Len(uAll) >= 3
    /\ uAll[1].Text = ""
    /\ uAll[1].Index = 2
    /\ uAll[2].Index = 2
    /\ uAll[3].Index = 1

(***************************************************************************)
(* container/heap over PlexHeap, ordered by Ident alone.  Identifiers are  *)
(* strings compared bytewise; they are coded by naturals in string order,  *)
(* 0 coding the empty string.                                              *)
(***************************************************************************)
\* the number of shard files merged
MaxShards == 3

\* the number of InvDocument fragments of one shard file
MaxShardLen == 2

Idents == 0..2

EmptyIdent == 0

plexLessFlipped(h, i, j) == h[i].Ident > h[j].Ident

plexLess(h, i, j) == h[i].Ident < h[j].Ident

RECURSIVE plexUp(_, _)
plexUp(h, j) ==
    IF j = 1 THEN h
    ELSE LET i == j \div 2     \* parent
         IN  IF ~plexLess(h, j, i) THEN h ELSE plexUp(Swap(h, i, j), i)

RECURSIVE plexDown(_, _, _)
plexDown(h, i, n) ==
    LET j1 == 2 * i            \* left child
    IN  IF j1 > n THEN h
        ELSE LET j == IF j1 + 1 <= n /\ plexLess(h, j1 + 1, j1) THEN j1 + 1 ELSE j1
             IN  IF ~plexLess(h, j, i) THEN h ELSE plexDown(Swap(h, i, j), j, n)

plexHeapPush(h, x) == plexUp(Append(h, x), Len(h) + 1)

plexHeapSifted(h) == plexDown(Swap(h, 1, Len(h)), 1, Len(h) - 1)

plexHeapTop(h) == plexHeapSifted(h)[Len(h)]

plexHeapRest(h) == SubSeq(plexHeapSifted(h), 1, Len(h) - 1)

(***************************************************************************)
(* xmlPresenter and xmlManifold                                            *)
(***************************************************************************)
IsAscendingIdents(s) == \A x \in 1..(Len(s) - 1) : s[x] <= s[x + 1]

\* the term lists a shard file can hold: ascending by term
ShardKeys == {s \in SeqsUpTo(Idents, MaxShardLen) : IsAscendingIdents(s)}

\* out <- Plex{fileNum, id, str, 0, nil}: the n-th fragment of shard fileNum;
\* its text is told apart from every other fragment's
Presented(fileNum, keys) ==
    [n \in DOMAIN keys |->
        [Which |-> fileNum, Ident |-> keys[n], Text |-> <<fileNum, n>>]]

InitMerge ==
    /\ RestIdle
    /\ SetIdle
    /\ UnshIdle
    /\ StashIdle
    /\ \E k \in 1..MaxShards :
           \E keys \in [1..k -> ShardKeys] :
               mAll = [w \in 1..k |-> Presented(w, keys[w])]
    /\ mInp = mAll
    /\ php = <<>>
    /\ arry = <<>>
    /\ prevIdent = EmptyIdent
    /\ rec = 0
    /\ mOut = <<>>
    /\ mChn = 1
    /\ mPc = "first"

\* plx, ok := <-chn; if ok { heap.Push(hp, plx) }
plexReadNext(h, inp, w) ==
    IF inp[w] # <<>> THEN plexHeapPush(h, Head(inp[w])) ELSE h

plexTakeNext(inp, w) ==
    IF inp[w] # <<>> THEN [inp EXCEPT ![w] = Tail(inp[w])] ELSE inp

manifoldSendFirstOnly(out, ident, n, sibs) ==
    Append(out, [Ident |-> ident, Index |-> n, Sibs |-> <<sibs[1]>>])

\* out <- Plex{0, prevIdent, "", rec, arry}
manifoldSend(out, ident, n, sibs) ==
    Append(out, [Ident |-> ident, Index |-> n, Sibs |-> sibs])

\* read first object from all input channels in turn
ManifoldFirst ==
    /\ mPc = "first"
    /\ php' = plexReadNext(php, mInp, mChn)
    /\ mInp' = plexTakeNext(mInp, mChn)
    /\ IF mChn = Len(mInp)
       THEN mPc' = "loop" /\ UNCHANGED mChn
       ELSE mChn' = mChn + 1 /\ UNCHANGED mPc
    /\ UNCHANGED <<mAll, arry, prevIdent, rec, mOut>>
    /\ UNCHANGED notMergeVars

\* one turn of `for hp.Len() > 0`
ManifoldStep ==
    /\ mPc = "loop"
    /\ Len(php) > 0
    /\ LET curr == plexHeapTop(php)
           rest == plexHeapRest(php)
       IN  /\ IF prevIdent = curr.Ident
              THEN /\ arry' = Append(arry, curr.Text)
                   /\ UNCHANGED <<rec, mOut, prevIdent>>
              ELSE /\ IF Len(arry) > 0
                      THEN /\ rec' = rec + 1
                           /\ mOut' = manifoldSend(mOut, prevIdent, rec + 1, arry)
                      ELSE UNCHANGED <<rec, mOut>>
                   /\ prevIdent' = curr.Ident
                   /\ arry' = <<curr.Text>>
           /\ php' = plexReadNext(rest, mInp, curr.Which)
           /\ mInp' = plexTakeNext(mInp, curr.Which)
    /\ UNCHANGED <<mAll, mChn, mPc>>
    /\ UNCHANGED notMergeVars

\* the heap is empty: send last record, then the deferred close(out)
ManifoldLast ==
    /\ mPc = "loop"
    /\ Len(php) = 0
    /\ IF Len(arry) > 0
       THEN /\ rec' = rec + 1
            /\ mOut' = manifoldSend(mOut, prevIdent, rec + 1, arry)
            /\ arry' = <<>>
       ELSE UNCHANGED <<rec, mOut, arry>>
    /\ mPc' = "done"
    /\ UNCHANGED <<mAll, mInp, php, prevIdent, mChn>>
    /\ UNCHANGED notMergeVars

NextMerge ==
    \/ ManifoldFirst
    \/ ManifoldStep
    \/ ManifoldLast

SpecMerge == InitMerge /\ [][NextMerge]_vars

(***************************************************************************)
(* Claims about the manifold (checked under SpecMerge)                     *)
(***************************************************************************)
\* every fragment of every shard
Fragments == UNION {Range(mAll[w]) : w \in DOMAIN mAll}

\* the places <<group, position>> of the output where the text occurs
PlacesOf(text) ==
    UNION {{<<x, y>> : y \in {z \in DOMAIN mOut[x].Sibs : mOut[x].Sibs[z] = text}} :
              x \in DOMAIN mOut}

\* C6: given k shard streams each sorted ascending by term, the manifold emits
\* one group per distinct term, the group terms are strictly ascending over
\* the whole output, and the groups carry the indices 1..m in emission order.
C6_MergerOrdering ==
    /\ \A x \in DOMAIN mOut : mOut[x].Index = x
    /\ \A x \in 1..(Len(mOut) - 1) : mOut[x].Ident < mOut[x + 1].Ident
    /\ mPc = "done" =>
           /\ {mOut[x].Ident : x \in DOMAIN mOut} = {f.Ident : f \in Fragments}
           /\ Len(mOut) = Cardinality({f.Ident : f \in Fragments})

C6_Witness ==
    /\ mPc = "done"
    /\ Len(mOut) >= 2
    /\ Len(mAll) >= 2
    /\ \E f \in Range(mAll[1]), g \in Range(mAll[2]) : f.Ident > g.Ident
    /\ \E f \in Range(mAll[1]), g \in Range(mAll[2]) : f.Ident = g.Ident

\* C7: every fragment read from any shard appears in exactly one emitted
\* group, namely the group of its own term, so the group for term t holds
\* every fragment with term t from every shard.
C7_FusionComplete ==
    /\ \A f \in Fragments :
           /\ Cardinality(PlacesOf(f.Text)) <= 1
           /\ \A p \in PlacesOf(f.Text) : mOut[p[1]].Ident = f.Ident
    /\ mPc = "done" => \A f \in Fragments : Cardinality(PlacesOf(f.Text)) = 1

C7_Witness ==
    /\ mPc = "done"
    /\ Len(mOut) >= 2
    /\ \E x \in DOMAIN mOut :
           /\ Len(mOut[x].Sibs) >= 3
           /\ \E y, z \in DOMAIN mOut[x].Sibs : mOut[x].Sibs[y][1] # mOut[x].Sibs[z][1]
           /\ \E y, z \in DOMAIN mOut[x].Sibs :
                  y # z /\ mOut[x].Sibs[y][1] = mOut[x].Sibs[z][1]

(***************************************************************************)
(* Strings are sequences of one-character strings.                         *)
(***************************************************************************)
Digits == {"0", "1", "2", "3", "4", "5", "6", "7", "8", "9"}

UpperLetters == {"A", "N", "P", "U"}

LowerLetters == {"a", "n", "p", "u"}

\* unicode.IsLetter
IsLetter(ch) == ch \in UpperLetters \cup LowerLetters

\* unicode.IsDigit
IsDigit(ch) == ch \in Digits

\* strings.ToUpper, on one character
ToUpper(ch) ==
    CASE ch = "a" -> "A"
      [] ch = "n" -> "N"
      [] ch = "p" -> "P"
      [] ch = "u" -> "U"
      [] OTHER -> ch

IsAllDigits(str) == \A x \in DOMAIN str : IsDigit(str[x])

IsAllDigitsOrPeriod(str) == \A x \in DOMAIN str : IsDigit(str[x]) \/ str[x] = "."

\* strings.Index(str, "."), 1-based, 0 when there is none
IndexOfPeriod(str) ==
    IF \E x \in DOMAIN str : str[x] = "."
    THEN CHOOSE x \in DOMAIN str : str[x] = "." /\ \A y \in 1..(x - 1) : str[y] # "."
    ELSE 0

\* pos := strings.Index(id, "."); if pos >= 0 { id = id[:pos] }
RemoveVersion(id) ==
    IF IndexOfPeriod(id) > 0 THEN SubSeq(id, 1, IndexOfPeriod(id) - 1) ELSE id

\* strings.HasSuffix(str, "\n")
EndsWithNewline(str) == Len(str) > 0 /\ str[Len(str)] = "\n"

(***************************************************************************)
(* MakeArchiveTrie                                                         *)
(***************************************************************************)
MaxIdentLen == 64

PadLen == 8

TrieLimit == 6

\* zeros[ln:] + str
PadWithZeros(str) ==
    IF Len(str) < PadLen THEN [x \in 1..(PadLen - Len(str)) |-> "0"] \o str ELSE str

RECURSIVE LeadingLetters(_, _)
\* the length of the run of letters that starts str, counted from position n
LeadingLetters(str, n) ==
    IF n <= Len(str) /\ IsLetter(str[n]) THEN LeadingLetters(str, n + 1) ELSE n - 1

\* k after the prefix loop: the leading letters and an underscore after them
PrefixLen(str) ==
    LET k == LeadingLetters(str, 1)
    IN  IF k < Len(str) /\ str[k + 1] = "_" THEN k + 1 ELSE k

\* a prefix loop that leaves max at 4 when it meets the underscore
PrefixMaxNoUnderscore(str) == 4

\* max after the prefix loop
PrefixMax(str) ==
    LET k == LeadingLetters(str, 1)
    IN  IF k < Len(str) /\ str[k + 1] = "_" THEN 6 ELSE 4

RECURSIVE TriePairs(_, _, _, _)
\* the loop over the remainder: n is the next character, doSlash and between
\* are the loop's variables
TriePairs(str, n, between, doSlash) ==
    IF n > Len(str) \/ str[n] = "." THEN <<>>
    ELSE LET ch == IF IsLetter(str[n]) \/ IsDigit(str[n]) THEN str[n] ELSE "_"
             slash == IF doSlash THEN <<"/">> ELSE <<>>
         IN  slash \o <<ch>> \o
             (IF between + 1 > 1 THEN TriePairs(str, n + 1, 0, TRUE)
              ELSE TriePairs(str, n + 1, between + 1, FALSE))

\* zero-pad numeric identifiers
PaddedIdent(id) == IF IsAllDigits(id) THEN PadWithZeros(id) ELSE id

\* use first TrieLimit characters of a numeric identifier
LimitedIdent(str) ==
    IF IsAllDigitsOrPeriod(str) /\ Len(str) > TrieLimit
    THEN SubSeq(str, 1, TrieLimit) ELSE str

\* the remainder of str after the prefix, when the prefix is used
AfterPrefix(str) ==
    IF PrefixLen(str) < PrefixMax(str) THEN SubSeq(str, PrefixLen(str) + 1, Len(str)) ELSE str

\* the prefix and its slash, when the prefix is used and is not empty
PrefixDir(str) ==
    IF PrefixLen(str) < PrefixMax(str) /\ PrefixLen(str) > 0
    THEN SubSeq(str, 1, PrefixLen(str)) \o <<"/">> ELSE <<>>

\* strings.ToUpper of the path, with a slash at its end
UpperWithSlash(res) ==
    IF Len(res) > 0 /\ res[Len(res)] = "/"
    THEN [x \in DOMAIN res |-> ToUpper(res[x])]
    ELSE [x \in 1..(Len(res) + 1) |-> IF x <= Len(res) THEN ToUpper(res[x]) ELSE "/"]

\* the path of the padded and limited identifier str
TrieOfString(str) ==
    CHOOSE trie \in
        {UpperWithSlash(res) :
            res \in {PrefixDir(str) \o TriePairs(rest, 1, 0, FALSE) :
                        rest \in {AfterPrefix(str)}}} : TRUE

\* each string of the function is computed once, from the one before it
MakeArchiveTrie(id) ==
    IF Len(id) > MaxIdentLen THEN <<>>
    ELSE CHOOSE trie \in
             {TrieOfString(str) :
                 str \in {LimitedIdent(padded) :
                            padded \in {PaddedIdent(v) : v \in {id}}}} : TRUE

(***************************************************************************)
(* CreateStashers: lockFile, freeFile, stashRecord, xmlStasher             *)
(***************************************************************************)
\* the number of xmlStasher goroutines
NumServe == 2

\* the number of records sent to the stashers
StashRecs == 2

\* the number of records stashed before a fetch
TripRecs == 2

Attempts == 5

Stashers == 1..NumServe

\* the text of the n-th record is told apart from every other record's
Marks == <<"a", "b", "c", "d", "e", "f", "g", "h">>

PlainText(n) == <<Marks[n]>>

LineText(n) == <<Marks[n], "\n">>

\* identifiers as FindIdentifier returns them; <<>> when the record has none
IdentOne == <<"1">>

IdentOneV2 == <<"1", ".", "2">>

IdentTwo == <<"2">>

IdentAccession == <<"n", "p", "_", "0", "1", ".", "3">>

IdentNone == <<>>

\* out <- XMLRecord{rec, "", str, nil}, and FindIdentifier(ext.Text, parent, find)
Produced(recs) ==
    [n \in DOMAIN recs |-> [Index |-> n, Ident |-> recs[n].Ident, Text |-> recs[n].Text]]

\* the per-record choices of a stream of n records
StreamsOf(n, idents, withLines) ==
    {s \in [1..n -> [Ident : idents, Line : withLines]] : TRUE}

StreamRecords(s) ==
    [n \in DOMAIN s |->
        [Ident |-> s[n].Ident, Text |-> IF s[n].Line THEN LineText(n) ELSE PlainText(n)]]

StashStart ==
    /\ sInp = Produced(sAll)
    /\ inUse = <<>>
    /\ files = <<>>
    /\ sPc = [w \in Stashers |-> "recv"]
    /\ sExt = [w \in Stashers |-> [Index |-> 0, Ident |-> <<>>, Text |-> <<>>]]
    /\ attempts = [w \in Stashers |-> Attempts]
    /\ sOutcome = <<>>
    /\ sOut = <<>>
    /\ fPc = "wait"
    /\ fLine = 0
    /\ fRes = <<>>

\* concurrent stashes of a few identifiers, two of them naming one archive key
InitStash ==
    /\ RestIdle
    /\ SetIdle
    /\ UnshIdle
    /\ MergeIdle
    /\ \E n \in 1..StashRecs :
           \E s \in StreamsOf(n, {IdentOne, IdentOneV2, IdentTwo}, {FALSE}) :
               sAll = StreamRecords(s)
    /\ sZipp = FALSE
    /\ fZipp = FALSE
    /\ StashStart

\* a stash of any identifier and payload, with or without -gzip, then a fetch
InitTrip ==
    /\ RestIdle
    /\ SetIdle
    /\ UnshIdle
    /\ MergeIdle
    /\ \E n \in 1..TripRecs :
           \E s \in StreamsOf(n, {IdentOne, IdentOneV2, IdentAccession, IdentNone},
                              BOOLEAN) :
               sAll = StreamRecords(s)
    /\ sZipp \in BOOLEAN
    /\ fZipp \in BOOLEAN
    /\ sZipp \/ ~fZipp       \* an archive written without -gzip is not read with it
    /\ StashStart

lockFileNoWait(map, id, index) ==
    IF id \in DOMAIN map /\ map[id] < index THEN "BAIL" ELSE "OKAY"

\* lockFile with the two answers for a key in use exchanged
lockFileWaitsForEarlier(map, id, index) ==
    IF id \in DOMAIN map
    THEN IF map[id] < index THEN "WAIT" ELSE "BAIL"
    ELSE "OKAY"

\* lockFile: what it returns
lockFile(map, id, index) ==
    IF id \in DOMAIN map
    THEN IF map[id] < index THEN "BAIL" ELSE "WAIT"
    ELSE "OKAY"

\* stashRecord gives up one attempt later
giveUpLate(att) == att - 1 < 0

\* attempts--; if attempts < 1: could not get lock after several attempts
giveUp(att) == att - 1 < 1

\* inUse[id] = index
MapPut(map, id, index) == (id :> index) @@ map

\* the entry is left in the map
MapKeep(map, id) == map

\* delete(inUse, id)
MapDelete(map, id) == [x \in DOMAIN map \ {id} |-> map[x]]

\* the local id of stashRecord
StashId(ext) == RemoveVersion(ext.Ident)

\* sfx, after `if zipp { sfx += ".gz" }`
Suffix(zipp) == IF zipp THEN "xml.gz" ELSE "xml"

\* path.Join(stash, trie, id+sfx)
FilePath(id, sfx) == <<MakeArchiveTrie(id), id, sfx>>

\* what the gzip writer leaves in the file, and what the gzip reader gives back
Gzip(str) == [gz |-> TRUE, data |-> str]

Plain(str) == [gz |-> FALSE, data |-> str]

\* WriteString(str); if !strings.HasSuffix(str, "\n") { WriteString("\n") }
WithNewline(str) == IF EndsWithNewline(str) THEN str ELSE str \o <<"\n">>

Written(str, zipp) == IF zipp THEN Gzip(WithNewline(str)) ELSE Plain(WithNewline(str))

SetOutcome(w, how) == sOutcome' = (sExt[w].Index :> how) @@ sOutcome

\* for ext := range inp, and stashRecord up to the lock loop
StashReceive(w) ==
    /\ sPc[w] = "recv"
    /\ sInp # <<>>
    /\ sInp' = Tail(sInp)
    /\ sExt' = [sExt EXCEPT ![w] = Head(sInp)]
    /\ attempts' = [attempts EXCEPT ![w] = Attempts]
    /\ IF MakeArchiveTrie(RemoveVersion(Head(sInp).Ident)) = <<>>
       THEN /\ sPc' = [sPc EXCEPT ![w] = "send"]
            /\ sOutcome' = (Head(sInp).Index :> "notrie") @@ sOutcome
       ELSE /\ sPc' = [sPc EXCEPT ![w] = "lock"]
            /\ UNCHANGED sOutcome
    /\ UNCHANGED <<sAll, sZipp, fZipp, inUse, files, sOut, fPc, fLine, fRes>>
    /\ UNCHANGED notStashVars

\* one turn of `for keepChecking`: lockFile under wlock, then OKAY, WAIT (with
\* the sleep and the count of attempts) or BAIL; attempts is local to the call
\* of stashRecord and is back at its initial value outside the loop
StashLock(w) ==
    /\ sPc[w] = "lock"
    /\ LET id == StashId(sExt[w])
           got == lockFile(inUse, id, sExt[w].Index)
       IN  CASE got = "OKAY" ->
                    /\ inUse' = MapPut(inUse, id, sExt[w].Index)
                    /\ sPc' = [sPc EXCEPT ![w] = "create"]
                    /\ attempts' = [attempts EXCEPT ![w] = Attempts]
                    /\ UNCHANGED sOutcome
             [] got = "WAIT" ->
                    /\ IF giveUp(attempts[w])
                       THEN /\ sPc' = [sPc EXCEPT ![w] = "send"]
                            /\ attempts' = [attempts EXCEPT ![w] = Attempts]
                            /\ SetOutcome(w, "failed")
                       ELSE /\ attempts' = [attempts EXCEPT ![w] = attempts[w] - 1]
                            /\ UNCHANGED <<sPc, sOutcome>>
                    /\ UNCHANGED inUse
             [] got = "BAIL" ->
                    /\ sPc' = [sPc EXCEPT ![w] = "send"]
                    /\ attempts' = [attempts EXCEPT ![w] = Attempts]
                    /\ SetOutcome(w, "bailed")
                    /\ UNCHANGED inUse
    /\ UNCHANGED <<sAll, sInp, sZipp, fZipp, files, sExt, sOut, fPc, fLine, fRes>>
    /\ UNCHANGED notStashVars

\* os.MkdirAll and os.Create: overwrites and truncates existing file
StashCreate(w) ==
    /\ sPc[w] = "create"
    /\ files' = (FilePath(StashId(sExt[w]), Suffix(sZipp)) :> Plain(<<>>)) @@ files
    /\ sPc' = [sPc EXCEPT ![w] = "write"]
    /\ UNCHANGED <<sAll, sInp, sZipp, fZipp, inUse, sExt, attempts, sOutcome, sOut,
                   fPc, fLine, fRes>>
    /\ UNCHANGED notStashVars

\* os.MkdirAll or os.Create returns an error: return "", the lock is freed
StashCreateFails(w) ==
    /\ sPc[w] = "create"
    /\ sPc' = [sPc EXCEPT ![w] = "free"]
    /\ SetOutcome(w, "ioerror")
    /\ UNCHANGED <<sAll, sInp, sZipp, fZipp, inUse, files, sExt, attempts, sOut,
                   fPc, fLine, fRes>>
    /\ UNCHANGED notStashVars

\* the record is copied to the file and the file is closed
StashWrite(w) ==
    /\ sPc[w] = "write"
    /\ files' = (FilePath(StashId(sExt[w]), Suffix(sZipp)) :> Written(sExt[w].Text, sZipp))
                    @@ files
    /\ sPc' = [sPc EXCEPT ![w] = "free"]
    /\ SetOutcome(w, "written")
    /\ UNCHANGED <<sAll, sInp, sZipp, fZipp, inUse, sExt, attempts, sOut,
                   fPc, fLine, fRes>>
    /\ UNCHANGED notStashVars

\* Flush or Close returns an error: return "", the lock is freed
StashCloseFails(w) ==
    /\ sPc[w] = "write"
    /\ sPc' = [sPc EXCEPT ![w] = "free"]
    /\ SetOutcome(w, "ioerror")
    /\ UNCHANGED <<sAll, sInp, sZipp, fZipp, inUse, files, sExt, attempts, sOut,
                   fPc, fLine, fRes>>
    /\ UNCHANGED notStashVars

\* the deferred freeFile(id)
StashFree(w) ==
    /\ sPc[w] = "free"
    /\ inUse' = MapDelete(inUse, StashId(sExt[w]))
    /\ sPc' = [sPc EXCEPT ![w] = "send"]
    /\ UNCHANGED <<sAll, sInp, sZipp, fZipp, files, sExt, attempts, sOutcome, sOut,
                   fPc, fLine, fRes>>
    /\ UNCHANGED notStashVars

\* out <- res; ext is then out of use until the next receive
StashSend(w) ==
    /\ sPc[w] = "send"
    /\ sOut' = Append(sOut, sExt[w].Ident)
    /\ sPc' = [sPc EXCEPT ![w] = "recv"]
    /\ sExt' = [sExt EXCEPT ![w] = [Index |-> 0, Ident |-> <<>>, Text |-> <<>>]]
    /\ UNCHANGED <<sAll, sInp, sZipp, fZipp, inUse, files, attempts, sOutcome,
                   fPc, fLine, fRes>>
    /\ UNCHANGED notStashVars

\* inp is closed and empty: the range loop ends, wg.Done()
StashExit(w) ==
    /\ sPc[w] = "recv"
    /\ sInp = <<>>
    /\ sPc' = [sPc EXCEPT ![w] = "done"]
    /\ UNCHANGED <<sAll, sInp, sZipp, fZipp, inUse, files, sExt, attempts, sOutcome,
                   sOut, fPc, fLine, fRes>>
    /\ UNCHANGED notStashVars

AllStashed == \A w \in Stashers : sPc[w] = "done"

(***************************************************************************)
(* CreateUIDReader and CreateFetchers: uidReader, fetchRecord              *)
(***************************************************************************)
\* uidReader: remove version suffix
UidLine(line) == RemoveVersion(line)

\* the bytes of the file, through gzip.NewReader when iszip
ReadFile(content, iszip) ==
    IF iszip
    THEN IF content.gz THEN content.data ELSE <<"panic">>
    ELSE IF content.gz THEN <<"gzip bytes">> ELSE content.data

fetchRecord(fs, file, zipp) ==
    LET trie == MakeArchiveTrie(file)
        first == <<trie, file, Suffix(zipp)>>
        second == <<trie, file, "xml.gz">>
    IN  IF file = <<>> \/ trie = <<>> THEN <<>>
        ELSE IF first \in DOMAIN fs THEN ReadFile(fs[first], zipp)
        ELSE IF ~zipp /\ second \in DOMAIN fs THEN ReadFile(fs[second], TRUE)
        ELSE <<>>

\* a later run fetches the identifier of one of the stashed records
Fetch ==
    /\ fPc = "wait"
    /\ AllStashed
    /\ \E n \in DOMAIN sAll :
           /\ fLine' = n
           /\ fRes' = fetchRecord(files, UidLine(sAll[n].Ident), fZipp)
    /\ fPc' = "fetched"
    /\ UNCHANGED <<sAll, sInp, sZipp, fZipp, inUse, files, sPc, sExt, attempts,
                   sOutcome, sOut>>
    /\ UNCHANGED notStashVars

NextStash ==
    \/ \E w \in Stashers : StashReceive(w)
    \/ \E w \in Stashers : StashLock(w)
    \/ \E w \in Stashers : StashCreate(w)
    \/ \E w \in Stashers : StashCreateFails(w)
    \/ \E w \in Stashers : StashWrite(w)
    \/ \E w \in Stashers : StashCloseFails(w)
    \/ \E w \in Stashers : StashFree(w)
    \/ \E w \in Stashers : StashSend(w)
    \/ \E w \in Stashers : StashExit(w)
    \/ Fetch

SpecStash == InitStash /\ [][NextStash]_vars

SpecTrip == InitTrip /\ [][NextStash]_vars

(***************************************************************************)
(* Properties of the stashers (SpecStash) and of the archive round trip   *)
(* (SpecTrip)                                                              *)
(***************************************************************************)
\* between lockFile returning OKAY and freeFile
Holding(w) == sPc[w] \in {"create", "write", "free"}

SameKey(m, n) == RemoveVersion(sAll[m].Ident) = RemoveVersion(sAll[n].Ident)

\* no stash ended with an I/O error or gave up waiting for the lock
NoStashError == \A n \in DOMAIN sOutcome : sOutcome[n] \notin {"ioerror", "failed"}

\* the archive file of record n holds what a stash of record n writes
HoldsRecord(n) ==
    LET path == FilePath(RemoveVersion(sAll[n].Ident), Suffix(sZipp))
    IN  path \in DOMAIN files /\ files[path] = Written(sAll[n].Text, sZipp)

\* C1: for any identifier and any two stashes of it with versions v1 < v2,
\* under any interleaving, once both have finished the archive file of the
\* identifier holds the v2 payload.
C1_LatestVersionWins ==
    (AllStashed /\ NoStashError) =>
        \A n \in DOMAIN sAll :
            (\A m \in DOMAIN sAll : (m > n) => ~SameKey(m, n)) => HoldsRecord(n)

\* C2: at no reachable state do two stasher workers both hold the write lock
\* of the same identifier, and inUse[id] is the version of the one worker
\* that is writing id.
C2_WritesSerialized ==
    /\ \A w \in Stashers :
           Holding(w) =>
               /\ StashId(sExt[w]) \in DOMAIN inUse
               /\ inUse[StashId(sExt[w])] = sExt[w].Index
    /\ \A v, w \in Stashers :
           (v # w /\ Holding(v) /\ Holding(w)) => StashId(sExt[v]) # StashId(sExt[w])
    /\ \A id \in DOMAIN inUse :
           \E w \in Stashers : Holding(w) /\ StashId(sExt[w]) = id

C2_Witness ==
    \E v, w \in Stashers :
        /\ sPc[v] = "write"
        /\ sPc[w] = "lock"
        /\ StashId(sExt[v]) = StashId(sExt[w])
        /\ sExt[v].Ident # sExt[w].Ident
        /\ attempts[w] < Attempts

\* C3: for any identifier id (with or without a dotted version suffix) and
\* payload p, if the stash of (id, p) completes as written and no other stash
\* of id runs, a later fetch of id returns p followed by exactly one trailing
\* newline (p unchanged if it already ends in a newline).
C3_RoundTrip ==
    (/\ fPc = "fetched"
     /\ sOutcome[fLine] = "written"
     /\ \A m \in DOMAIN sAll : (m # fLine) => ~SameKey(m, fLine))
        => fRes = WithNewline(sAll[fLine].Text)

\* the round trip of the identifiers that are not empty once the version
\* suffix is removed
RoundTripOfNonEmptyIdent ==
    (/\ fPc = "fetched"
     /\ sOutcome[fLine] = "written"
     /\ RemoveVersion(sAll[fLine].Ident) # <<>>
     /\ \A m \in DOMAIN sAll : (m # fLine) => ~SameKey(m, fLine))
        => fRes = WithNewline(sAll[fLine].Text)

\* a written record of a dotted accession was fetched from a gzipped archive
RoundTripReached ==
    /\ fPc = "fetched"
    /\ sOutcome[fLine] = "written"
    /\ sAll[fLine].Ident = IdentAccession
    /\ sZipp /\ ~fZipp
    /\ \A m \in DOMAIN sAll : (m # fLine) => ~SameKey(m, fLine)

(***************************************************************************)
(* evaluateQuery.  A token of clauses is a sequence of strings: an         *)
(* operator is a one-element sequence (<<"&">>, <<"~~">>, ...), a word or   *)
(* phrase is the sequence of its words, and the empty string that          *)
(* nextToken returns at the end of clauses is <<>>.  The postings index is *)
(* given by the documents: a word's posting is the ascending list of the   *)
(* uids that hold it, with the ascending word positions per uid.           *)
(***************************************************************************)
\* the largest number of words of a document
MaxDocLen == 4

\* the largest number of operators and pairs of parentheses of a query
MaxOps == 2

\* the largest number of words of a phrase
MaxPhrase == 3

\* the largest number of tildes of a proximity operator
MaxTildes == 2

Words == {"a", "b"}

\* a word that no document holds
UnknownWord == "u"

\* the uids of the indexed documents, ascending
UidList == <<1, 2>>

Uids == Range(UidList)

Documents == [Uids -> SeqsUpTo(Words, MaxDocLen)]

\* the ascending positions of word w in a document
PositionsIn(doc, w) == SelectSeq([x \in 1..Len(doc) |-> x], LAMBDA x : doc[x] = w)

\* the ascending uids of the documents that hold word w
UidsWith(docs, w) ==
    SelectSeq(UidList, LAMBDA u : PositionsIn(docs[u], w) # <<>>)

\* getPostingIDs(base, term, field, simple): nil, nil for a term that is not
\* in the index; no positions when simple
getPostingIDs(docs, term, simple) ==
    LET data == UidsWith(docs, term)
    IN  IF data = <<>> THEN [Data |-> NilSlice, Ofst |-> <<>>]
        ELSE [Data |-> Slice(data),
              Ofst |-> IF simple THEN <<>>
                       ELSE [x \in DOMAIN data |-> PositionsIn(docs[data[x]], term)]]

RECURSIVE phraseLoop(_, _, _, _, _, _)
\* the loop of phrasePositions; q, r are 1-based
phraseLoop(pn, pm, dlt, q, r, res) ==
    IF pn[q] + dlt > pm[r] THEN
        IF r = Len(pm) THEN res ELSE phraseLoop(pn, pm, dlt, q, r + 1, res)
    ELSE IF pn[q] + dlt < pm[r] THEN
        IF q = Len(pn) THEN res ELSE phraseLoop(pn, pm, dlt, q + 1, r, res)
    ELSE
        IF q = Len(pn) \/ r = Len(pm) THEN Append(res, pn[q])
        ELSE phraseLoop(pn, pm, dlt, q + 1, r + 1, Append(res, pn[q]))

\* a test that takes the words of the uid as adjacent wherever they stand
phrasePositionsAnywhere(pn, pm, dlt) == pn

phrasePositions(pn, pm, dlt) == phraseLoop(pn, pm, dlt, 1, 1, <<>>)

RECURSIVE proximityLoop(_, _, _, _, _, _)
\* the loop of proximityPositions
proximityLoop(pn, pm, dlt, q, r, res) ==
    IF pn[q] + dlt < pm[r] THEN
        IF q = Len(pn) THEN res ELSE proximityLoop(pn, pm, dlt, q + 1, r, res)
    ELSE IF pn[q] < pm[r] THEN
        IF q = Len(pn) \/ r = Len(pm) THEN Append(res, pm[r])
        ELSE proximityLoop(pn, pm, dlt, q + 1, r + 1, Append(res, pm[r]))
    ELSE
        IF r = Len(pm) THEN res ELSE proximityLoop(pn, pm, dlt, q, r + 1, res)

\* a test that accepts any later position of the second word
proximityPositionsAnyLater(pn, pm, dlt) == SelectSeq(pm, LAMBDA q : q > pn[1])

proximityPositions(pn, pm, dlt) == proximityLoop(pn, pm, dlt, 1, 1, <<>>)

\* the callback proc of extendPositionalIDs, named by a string
applyProc(proc, pn, pm, dlt) ==
    IF proc = "phrase" THEN phrasePositions(pn, pm, dlt)
    ELSE proximityPositions(pn, pm, dlt)

RECURSIVE extendLoop(_, _, _, _, _, _, _, _, _, _)
\* the loop of extendPositionalIDs: res and ofs are res[:k] and ofs[:k]
extendLoop(N, np, M, mp, delta, proc, i, j, res, ofs) ==
    IF N[i] < M[j] THEN
        IF i = Len(N) THEN [Data |-> Slice(res), Ofst |-> ofs]
        ELSE extendLoop(N, np, M, mp, delta, proc, i + 1, j, res, ofs)
    ELSE IF N[i] > M[j] THEN
        IF j = Len(M) THEN [Data |-> Slice(res), Ofst |-> ofs]
        ELSE extendLoop(N, np, M, mp, delta, proc, i, j + 1, res, ofs)
    ELSE
        LET adj == applyProc(proc, np[i], mp[j], delta)
            res2 == IF Len(adj) > 0 THEN Append(res, N[i]) ELSE res
            ofs2 == IF Len(adj) > 0 THEN Append(ofs, adj) ELSE ofs
        IN  IF i = Len(N) \/ j = Len(M) THEN [Data |-> Slice(res2), Ofst |-> ofs2]
            ELSE extendLoop(N, np, M, mp, delta, proc, i + 1, j + 1, res2, ofs2)

extendPositionalIDs(N, np, M, mp, delta, proc) ==
    IF Len(N.a) < 1 \/ Len(np) < 1 THEN [Data |-> M, Ofst |-> mp]
    ELSE IF Len(M.a) < 1 \/ Len(mp) < 1 THEN [Data |-> N, Ofst |-> np]
    ELSE extendLoop(N.a, np, M.a, mp, delta, proc, 1, 1, <<>>, <<>>)

\* return nil, nil, 0
EvalNothing == [Data |-> NilSlice, Ofst |-> <<>>, Delta |-> 0]

RECURSIVE evalFutures(_, _, _, _)
\* eval's loop over words: the Arrays that each future delivers, with its Dist;
\* a word that starts with "+" only adds to dist
evalFutures(docs, words, n, dist) ==
    IF n > Len(words) THEN <<>>
    ELSE IF words[n] = "+" THEN evalFutures(docs, words, n + 1, dist + 1)
    ELSE LET got == getPostingIDs(docs, words[n], FALSE)
         IN  <<[Data |-> got.Data, Ofst |-> got.Ofst, Dist |-> dist]>>
                 \o evalFutures(docs, words, n + 1, dist + 1)

RECURSIVE evalExtend(_, _, _, _, _)
\* eval's loop `for i := 1; i < len(intersect); i++`
evalExtend(intersect, i, data, ofst, dist) ==
    IF i > Len(intersect) THEN [Data |-> data, Ofst |-> ofst, Delta |-> dist]
    ELSE LET ext == extendPositionalIDs(data, ofst, intersect[i].Data,
                                        intersect[i].Ofst, intersect[i].Dist, "phrase")
         IN  IF Len(ext.Data.a) < 1 THEN EvalNothing
             ELSE evalExtend(intersect, i + 1, ext.Data, ext.Ofst, intersect[i].Dist + 1)

\* eval(str), with words = strings.Fields(str) and the default field
eval(docs, words, noProx) ==
    IF Len(words) < 1 THEN EvalNothing
    ELSE IF noProx /\ Len(words) = 1 THEN
        IF words[1] = "+" THEN EvalNothing
        ELSE [Data |-> getPostingIDs(docs, words[1], TRUE).Data, Ofst |-> <<>>, Delta |-> 1]
    ELSE LET intersect == evalFutures(docs, words, 1, 0)
         IN  IF \E x \in DOMAIN intersect : Len(intersect[x].Data.a) < 1 THEN EvalNothing
             ELSE IF Len(intersect) < 1 THEN EvalNothing
             ELSE evalExtend(intersect, 2, intersect[1].Data, intersect[1].Ofst,
                             intersect[1].Dist + 1)

(***************************************************************************)
(* The recursive descent parser.  st holds clauses, prevTkn and halt: ""   *)
(* while running, "exit" after os.Exit(1), "panic" after a run-time panic. *)
(***************************************************************************)
Amp == <<"&">>

Bar == <<"|">>

Bang == <<"!">>

Open == <<"(">>

Close == <<")">>

EndTkn == <<>>

\* the token of k tildes
Tildes(k) == [x \in 1..k |-> "~"]

\* strings.HasPrefix(tkn, "~")
HasTildePrefix(tkn) == Len(tkn) > 0 /\ tkn[1] = "~"

\* strings.Count(tkn, "~")
TildeCount(tkn) == Cardinality({x \in DOMAIN tkn : tkn[x] = "~"})

IsBoolOp(tkn) == tkn \in {Amp, Bar, Bang}

ParseStart(clauses) == [clauses |-> clauses, prevTkn |-> EndTkn, halt |-> ""]

Halted(st) == st.halt # ""

Exit(st) == [st EXCEPT !.halt = "exit"]

nextToken(st) ==
    IF Len(st.clauses) < 1 THEN [tkn |-> EndTkn, st |-> st]
    ELSE LET tkn == Head(st.clauses)
             bad == \/ tkn = Open /\ st.prevTkn # EndTkn /\ ~IsBoolOp(st.prevTkn)
                    \/ /\ st.prevTkn = Close /\ tkn # EndTkn
                       /\ ~IsBoolOp(tkn) /\ tkn # Close
         IN  [tkn |-> tkn,
              st |-> [clauses |-> Tail(st.clauses), prevTkn |-> tkn,
                      halt |-> IF bad THEN "exit" ELSE ""]]

\* what fact returns once the program has halted
FactHalted(st) == [data |-> NilSlice, ofst |-> <<>>, delta |-> 0, tkn |-> EndTkn, st |-> st]

\* what prox, excl, term and expr return once the program has halted, and
\* the `return nil, ""` of prox
Nothing(st) == [data |-> NilSlice, tkn |-> EndTkn, st |-> st]

\* what a rule of the parser is given besides the token stream: the result so
\* far and the token in hand, for the loops of prox, excl, term and expr
NoAcc == [data |-> NilSlice, ofst |-> <<>>, delta |-> 0, tkn |-> EndTkn]

RECURSIVE parse(_, _, _, _, _)
\* the recursive descent parser of evaluateQuery: the closures fact, prox,
\* excl, term and expr, and the loops of the last four, one rule each
parse(rule, docs, noProx, acc, st) ==
    CASE rule = "fact" ->
        LET t == nextToken(st)
        IN  IF Halted(t.st) THEN FactHalted(t.st)
            ELSE IF t.tkn = Open THEN
                LET e == parse("expr", docs, noProx, NoAcc, t.st)
                IN  IF Halted(e.st) THEN FactHalted(e.st)
                    ELSE IF e.tkn = Close THEN
                        LET u == nextToken(e.st)
                        IN  [data |-> e.data, ofst |-> <<>>, delta |-> 0,
                             tkn |-> u.tkn, st |-> u.st]
                    ELSE FactHalted(Exit(e.st))
            ELSE IF t.tkn = Close \/ IsBoolOp(t.tkn) \/ t.tkn = EndTkn THEN
                FactHalted(Exit(t.st))
            ELSE
                LET v == eval(docs, t.tkn, noProx)
                    u == nextToken(t.st)
                IN  [data |-> v.Data, ofst |-> v.Ofst, delta |-> v.Delta,
                     tkn |-> u.tkn, st |-> u.st]
      [] rule = "proxLoop" ->
        \* the loop `for strings.HasPrefix(tkn, "~")` of prox
        IF HasTildePrefix(acc.tkn) THEN
            LET n == parse("fact", docs, noProx, NoAcc, st)
            IN  IF Halted(n.st) \/ Len(n.data.a) < 1 THEN Nothing(n.st)
                ELSE LET ext == extendPositionalIDs(acc.data, acc.ofst, n.data, n.ofst,
                                                    acc.delta + TildeCount(acc.tkn),
                                                    "proximity")
                     IN  IF Len(ext.Data.a) < 1 THEN Nothing(n.st)
                         ELSE parse("proxLoop", docs, noProx,
                                    [data |-> ext.Data, ofst |-> ext.Ofst,
                                     delta |-> n.delta, tkn |-> n.tkn], n.st)
        ELSE [data |-> acc.data, tkn |-> acc.tkn, st |-> st]
      [] rule = "prox" ->
        LET f == parse("fact", docs, noProx, NoAcc, st)
        IN  IF Halted(f.st) \/ Len(f.data.a) < 1 THEN Nothing(f.st)
            ELSE parse("proxLoop", docs, noProx,
                       [data |-> f.data, ofst |-> f.ofst, delta |-> f.delta, tkn |-> f.tkn],
                       f.st)
      [] rule = "exclLoop" ->
        \* the loop `for tkn == "!"` of excl
        IF acc.tkn = Bang THEN
            LET n == parse("prox", docs, noProx, NoAcc, st)
                res == excludeIDs(acc.data, n.data)
            IN  IF Halted(n.st) THEN Nothing(n.st)
                ELSE IF res.kind = "panic" THEN Nothing([n.st EXCEPT !.halt = "panic"])
                ELSE parse("exclLoop", docs, noProx,
                           [NoAcc EXCEPT !.data = res, !.tkn = n.tkn], n.st)
        ELSE [data |-> acc.data, tkn |-> acc.tkn, st |-> st]
      [] rule = "excl" ->
        LET f == parse("prox", docs, noProx, NoAcc, st)
        IN  IF Halted(f.st) THEN Nothing(f.st)
            ELSE parse("exclLoop", docs, noProx,
                       [NoAcc EXCEPT !.data = f.data, !.tkn = f.tkn], f.st)
      [] rule = "termLoop" ->
        \* the loop `for tkn == "&"` of term
        IF acc.tkn = Amp THEN
            LET n == parse("excl", docs, noProx, NoAcc, st)
            IN  IF Halted(n.st) THEN Nothing(n.st)
                ELSE parse("termLoop", docs, noProx,
                           [NoAcc EXCEPT !.data = intersectIDs(acc.data, n.data),
                                         !.tkn = n.tkn], n.st)
        ELSE [data |-> acc.data, tkn |-> acc.tkn, st |-> st]
      [] rule = "term" ->
        LET f == parse("excl", docs, noProx, NoAcc, st)
        IN  IF Halted(f.st) THEN Nothing(f.st)
            ELSE parse("termLoop", docs, noProx,
                       [NoAcc EXCEPT !.data = f.data, !.tkn = f.tkn], f.st)
      [] rule = "exprLoop" ->
        \* the loop `for tkn == "|"` of expr
        IF acc.tkn = Bar THEN
            LET n == parse("term", docs, noProx, NoAcc, st)
            IN  IF Halted(n.st) THEN Nothing(n.st)
                ELSE parse("exprLoop", docs, noProx,
                           [NoAcc EXCEPT !.data = combineIDs(acc.data, n.data),
                                         !.tkn = n.tkn], n.st)
        ELSE [data |-> acc.data, tkn |-> acc.tkn, st |-> st]
      [] rule = "expr" ->
        LET f == parse("term", docs, noProx, NoAcc, st)
        IN  IF Halted(f.st) THEN Nothing(f.st)
            ELSE parse("exprLoop", docs, noProx,
                       [NoAcc EXCEPT !.data = f.data, !.tkn = f.tkn], f.st)

fact(docs, noProx, st) == parse("fact", docs, noProx, NoAcc, st)

prox(docs, noProx, st) == parse("prox", docs, noProx, NoAcc, st)

excl(docs, noProx, st) == parse("excl", docs, noProx, NoAcc, st)

term(docs, noProx, st) == parse("term", docs, noProx, NoAcc, st)

expr(docs, noProx, st) == parse("expr", docs, noProx, NoAcc, st)

\* noProx: no token of clauses starts with a tilde
NoProx(clauses) == \A x \in DOMAIN clauses : ~HasTildePrefix(clauses[x])

\* evaluateQuery: the uids printed, and how the program ended
evaluateQuery(docs, clauses) ==
    IF clauses[1] = EndTkn THEN [result |-> NilSlice, halt |-> ""]
    ELSE LET e == expr(docs, NoProx(clauses), ParseStart(clauses))
         IN  IF Halted(e.st) THEN [result |-> NilSlice, halt |-> e.st.halt]
             ELSE IF e.tkn # EndTkn THEN [result |-> NilSlice, halt |-> "exit"]
             ELSE [result |-> e.data, halt |-> ""]

(***************************************************************************)
(* Specifications of the evaluator.  SpecQuery evaluates the well-formed   *)
(* Boolean queries over single words; SpecPhrase evaluates one phrase or   *)
(* one proximity test over documents with every arrangement of words.      *)
(***************************************************************************)
QueryWords == Words \cup {UnknownWord}

RECURSIVE QueriesOfSize(_)
\* the well-formed queries with n operators and pairs of parentheses: a word,
\* a query in parentheses, or two queries joined by &, | or !
QueriesOfSize(n) ==
    IF n = 0 THEN {<<<<w>>>> : w \in QueryWords}
    ELSE {<<Open>> \o q \o <<Close>> : q \in QueriesOfSize(n - 1)}
             \cup UNION {{l \o <<op>> \o r : l \in QueriesOfSize(k),
                                            r \in QueriesOfSize(n - 1 - k),
                                            op \in {Amp, Bar, Bang}} : k \in 0..(n - 1)}

Queries == UNION {QueriesOfSize(n) : n \in 0..MaxOps}

\* documents that hold each word at most once
PlainDocuments == [Uids -> {<<>>, <<"a">>, <<"b">>, <<"a", "b">>}]

\* a phrase of known words, and `w1 ~k w2`
PhraseQueries == {<<ph>> : ph \in SeqsUpTo(Words, MaxPhrase) \ {<<>>}}

ProximityQueries ==
    {<<<<w1>>, Tildes(k), <<w2>>>> : w1 \in Words, w2 \in Words, k \in 1..MaxTildes}

QueryStart ==
    /\ qPc = "ready"
    /\ qData = NilSlice
    /\ qOfst = <<>>
    /\ qHalt = ""

InitQuery ==
    /\ LateIdle
    /\ SetIdle /\ UnshIdle /\ MergeIdle /\ StashIdle /\ FuseIdle /\ IndexIdle /\ PromIdle /\ SplitIdle
    /\ qDocs \in PlainDocuments
    /\ qClauses \in Queries
    /\ QueryStart

InitPhrase ==
    /\ LateIdle
    /\ SetIdle /\ UnshIdle /\ MergeIdle /\ StashIdle /\ FuseIdle /\ IndexIdle /\ PromIdle /\ SplitIdle
    /\ qDocs \in Documents
    /\ qClauses \in PhraseQueries \cup ProximityQueries
    /\ QueryStart

\* evaluateQuery(base, clauses)
Evaluate ==
    /\ qPc = "ready"
    /\ LET e == evaluateQuery(qDocs, qClauses)
       IN  /\ qData' = e.result
           /\ qHalt' = e.halt
    /\ qPc' = "evaluated"
    /\ UNCHANGED <<qDocs, qClauses, qOfst>>
    /\ UNCHANGED notQueryVars

\* eval(str) of a phrase, as fact calls it for a query without tildes
EvalPhrase ==
    /\ qPc = "ready"
    /\ Len(qClauses) = 1
    /\ LET v == eval(qDocs, qClauses[1], NoProx(qClauses))
       IN  /\ qData' = v.Data
           /\ qOfst' = v.Ofst
    /\ qPc' = "eval"
    /\ UNCHANGED <<qDocs, qClauses, qHalt>>
    /\ UNCHANGED notQueryVars

NextQuery == Evaluate

NextPhrase == Evaluate \/ EvalPhrase

SpecQuery == InitQuery /\ [][NextQuery]_vars

SpecPhrase == InitPhrase /\ [][NextPhrase]_vars

(***************************************************************************)
(* Properties of the evaluator                                             *)
(***************************************************************************)
HasUnknown(q) == \E x \in DOMAIN q : q[x] = <<UnknownWord>>

\* a well-formed query whose only operator is &
IsAndChain(q) == \A x \in DOMAIN q : q[x] \notin {Bar, Bang}

\* C12: for every well-formed query a word that is not in the index evaluates
\* to an empty posting, any &-chain that contains such a word (in any operand
\* position, parenthesized or not) evaluates to the empty result, and the
\* evaluation ends normally rather than with a fatal error.
C12_UnknownTermIsEmpty ==
    (qPc = "evaluated" /\ HasUnknown(qClauses)) =>
        /\ qHalt = ""
        /\ IsAndChain(qClauses) => Len(Elems(qData)) = 0

\* the unknown word as the first operand of an unparenthesized &-chain
UnknownFirstIsEmpty ==
    (/\ qPc = "evaluated" /\ IsAndChain(qClauses)
     /\ qClauses[1] = <<UnknownWord>>) =>
        qHalt = "" /\ Len(Elems(qData)) = 0

\* the words of ph stand at p, p+1, ... in doc
StartsAt(doc, ph, p) ==
    \A i \in 1..Len(ph) : p + i - 1 <= Len(doc) /\ doc[p + i - 1] = ph[i]

\* the ascending starting positions of ph in doc
PhraseStarts(doc, ph) ==
    SelectSeq([x \in 1..Len(doc) |-> x], LAMBDA x : StartsAt(doc, ph, x))

\* the ascending uids of the documents that hold ph
UidsWithPhrase(docs, ph) ==
    SelectSeq(UidList, LAMBDA u : PhraseStarts(docs[u], ph) # <<>>)

\* C13: for a phrase of n consecutive words w1 ... wn a uid is in the result
\* iff there is a position p such that wi occurs at p+i-1 in that uid for
\* every i, and the positions returned for the uid are exactly those starting
\* positions p (positions are returned for phrases of two or more words).
C13_PhraseLaw ==
    qPc = "eval" =>
        LET ph == qClauses[1]
            uids == UidsWithPhrase(qDocs, ph)
        IN  /\ Elems(qData) = uids
            /\ Len(ph) >= 2 =>
                   qOfst = [x \in DOMAIN uids |-> PhraseStarts(qDocs[uids[x]], ph)]

\* a phrase of three words found in one document and not in another one
\* that holds all of its words
C13_Witness ==
    /\ qPc = "eval"
    /\ Len(qClauses[1]) = 3
    /\ Len(Elems(qData)) = 1
    /\ \E u \in Uids :
           /\ u \notin Range(Elems(qData))
           /\ \A i \in 1..3 : PositionsIn(qDocs[u], qClauses[1][i]) # <<>>

\* a phrase of two words found at two starting positions of one document
PhraseFoundTwice ==
    /\ qPc = "eval"
    /\ Len(qClauses[1]) = 2
    /\ \E x \in DOMAIN qOfst : Len(qOfst[x]) = 2

\* word w2 stands after a position p of word w1, at most 1 + k words later
IsNear(doc, w1, w2, k) ==
    \E p \in DOMAIN doc, q \in DOMAIN doc :
        doc[p] = w1 /\ doc[q] = w2 /\ p < q /\ q <= p + 1 + k

IsProximityQuery(q) == Len(q) = 3 /\ HasTildePrefix(q[2])

\* C14: for single words w1, w2 and k >= 1 tildes, a uid is in the result of
\* `w1 ~k w2` iff it has a position p of w1 and a position q of w2 with
\* p < q <= p + 1 + k.
C14_ProximityLaw ==
    (qPc = "evaluated" /\ IsProximityQuery(qClauses)) =>
        /\ qHalt = ""
        /\ Elems(qData) = SelectSeq(UidList,
               LAMBDA u : IsNear(qDocs[u], qClauses[1][1], qClauses[3][1],
                                 TildeCount(qClauses[2])))

\* `a ~ a` over a document whose second a is two words after the first
\* (q = p + 1 + k) and a document whose second a is three words after it
C14_Witness ==
    /\ qPc = "evaluated"
    /\ qClauses = <<<<"a">>, Tildes(1), <<"a">>>>
    /\ qDocs[1] = <<"a", "b", "a">>
    /\ qDocs[2] = <<"a", "b", "b", "a">>
    /\ Elems(qData) = <<1>>

\* `a ~~ b` finds a document with b right after a and leaves out a document
\* with b only before a
ProximityIsOrdered ==
    /\ qPc = "evaluated"
    /\ qClauses = <<<<"a">>, Tildes(2), <<"b">>>>
    /\ qDocs[1] = <<"b", "b", "a">>
    /\ qDocs[2] = <<"b", "a", "b">>
    /\ Elems(qData) = <<2>>

(***************************************************************************)
(* CreateMergers: fusePostings.  An InvDocument is its InvKey and the      *)
(* sequence of its postings [fld, attr, uid] as StreamValues delivers      *)
(* them; uid is a string of digits, attr is the list of positions of the   *)
(* pos attribute, <<>> when the element has no attribute.                  *)
(***************************************************************************)
\* the largest number of fragments fused for one term
MaxFrags == 2

DigitValue(c) ==
    CASE c = "0" -> 0 [] c = "1" -> 1 [] c = "2" -> 2 [] c = "3" -> 3 [] c = "4" -> 4
      [] c = "5" -> 5 [] c = "6" -> 6 [] c = "7" -> 7 [] c = "8" -> 8 [] c = "9" -> 9

RECURSIVE StrLess(_, _)
\* Go's a < b on strings of digits
StrLess(a, b) ==
    IF Len(b) = 0 THEN FALSE
    ELSE IF Len(a) = 0 THEN TRUE
    ELSE IF a[1] # b[1] THEN DigitValue(a[1]) < DigitValue(b[1])
    ELSE StrLess(Tail(a), Tail(b))

\* the comparison of fusePostings' sort.Slice: numeric sort on strings checks
\* lengths first
uidLess(a, b) ==
    IF Len(a) < Len(b) THEN TRUE
    ELSE IF Len(a) > Len(b) THEN FALSE
    ELSE StrLess(a, b)

RECURSIVE sortUids(_)
\* the keys of a positions map, sorted with uidLess
sortUids(S) ==
    IF S = {} THEN <<>>
    ELSE LET least == CHOOSE x \in S : \A y \in S \ {x} : uidLess(x, y)
         IN  <<least>> \o sortUids(S \ {least})

\* the fields, in alphabetical order
FieldList == <<"STEM", "TIAB">>

\* addIdents: positions[uid] = pos
addIdents(fields, fld, pos, uid) == (<<fld, uid>> :> pos) @@ fields

RECURSIVE addAll(_, _, _)
\* the calls of addUID that StreamValues makes for one InvDocument
addAll(fields, ids, n) ==
    IF n > Len(ids) THEN fields
    ELSE addAll(addIdents(fields, ids[n].fld, ids[n].attr, ids[n].uid), ids, n + 1)

RECURSIVE fuseFields(_, _, _)
\* `for _, str := range data`
fuseFields(fields, data, n) ==
    IF n > Len(data) THEN fields
    ELSE fuseFields(addAll(fields, data[n].Ids, 1), data, n + 1)

\* the postings written for one field: the uids in sorted order, each with
\* the attribute the map holds for it
fuseOneField(fields, fld) ==
    LET uidArry == sortUids({k[2] : k \in {x \in DOMAIN fields : x[1] = fld}})
    IN  [x \in DOMAIN uidArry |-> [fld |-> fld, attr |-> fields[<<fld, uidArry[x]>>], uid |-> uidArry[x]]]

RECURSIVE fuseWrite(_, _)
\* `for _, fld := range keys`, keys being the fields in alphabetical order
fuseWrite(fields, n) ==
    IF n > Len(FieldList) THEN <<>>
    ELSE fuseOneField(fields, FieldList[n]) \o fuseWrite(fields, n + 1)

fusePostings(key, data) ==
    [Key |-> key, Ids |-> fuseWrite(fuseFields(<<>>, data, 1), 1)]

(***************************************************************************)
(* xmlMerger                                                               *)
(***************************************************************************)
FuseUids == {<<"2">>, <<"1", "0">>}

\* pos="1" and pos="2"
FuseAttrs == {<< <<"1">> >>, << <<"2">> >>}

FusePostings == [fld : Range(FieldList), attr : FuseAttrs, uid : FuseUids]

\* q comes after p in an InvDocument: fields in alphabetical order, uids in
\* sorted order within a field
PostingBefore(p, q) ==
    \/ p.fld # q.fld /\ p.fld = FieldList[1]
    \/ p.fld = q.fld /\ uidLess(p.uid, q.uid)

\* the InvDocument of one shard for a term: one or two postings in the order
\* in which the inverter writes them
FuseFragments ==
    {[Key |-> "ab", Ids |-> <<x>>] : x \in FusePostings}
        \cup {[Key |-> "ab", Ids |-> <<p[1], p[2]>>] :
                  p \in {q \in FusePostings \X FusePostings : PostingBefore(q[1], q[2])}}

InitFuse ==
    /\ LateIdle
    /\ SetIdle /\ UnshIdle /\ MergeIdle /\ StashIdle /\ QueryIdle /\ IndexIdle /\ PromIdle /\ SplitIdle
    /\ \E sibs \in SeqsUpTo(FuseFragments, MaxFrags) :
           gAll = <<[Index |-> 1, Ident |-> "ab", Sibs |-> sibs]>>
    /\ gInp = gAll
    /\ gPc = [w \in Stashers |-> "recv"]
    /\ gStr = [w \in Stashers |-> <<>>]
    /\ gOut = <<>>

\* for plx := range inp, up to the send
MergeTake(w) ==
    /\ gPc[w] = "recv"
    /\ gInp # <<>>
    /\ gInp' = Tail(gInp)
    /\ LET plx == Head(gInp)
       IN  IF Len(plx.Sibs) < 1
           THEN UNCHANGED <<gPc, gStr>>
           ELSE /\ gStr' = [gStr EXCEPT ![w] =
                       <<[Index |-> plx.Index, Ident |-> plx.Ident,
                          Text |-> fusePostings(plx.Ident, plx.Sibs)]>>]
                /\ gPc' = [gPc EXCEPT ![w] = "send"]
    /\ UNCHANGED <<gAll, gOut>>
    /\ UNCHANGED notFuseVars

\* out <- XMLRecord{Index: rec, Ident: key, Text: str}
MergeSend(w) ==
    /\ gPc[w] = "send"
    /\ gOut' = gOut \o gStr[w]
    /\ gStr' = [gStr EXCEPT ![w] = <<>>]
    /\ gPc' = [gPc EXCEPT ![w] = "recv"]
    /\ UNCHANGED <<gAll, gInp>>
    /\ UNCHANGED notFuseVars

\* inp is closed and empty: wg.Done()
MergeExit(w) ==
    /\ gPc[w] = "recv"
    /\ gInp = <<>>
    /\ gPc' = [gPc EXCEPT ![w] = "done"]
    /\ UNCHANGED <<gAll, gInp, gStr, gOut>>
    /\ UNCHANGED notFuseVars

NextFuse ==
    \/ \E w \in Stashers : MergeTake(w)
    \/ \E w \in Stashers : MergeSend(w)
    \/ \E w \in Stashers : MergeExit(w)

SpecFuse == InitFuse /\ [][NextFuse]_vars

\* the fragments of plex that mention uid in field fld, in fusion order
Mentions(sibs, fld, uid) ==
    SelectSeq([x \in DOMAIN sibs |-> x],
              LAMBDA x : \E y \in DOMAIN sibs[x].Ids :
                             sibs[x].Ids[y].fld = fld /\ sibs[x].Ids[y].uid = uid)

\* the attribute that fragment x gives to uid in field fld
AttrIn(frag, fld, uid) ==
    LET y == CHOOSE z \in DOMAIN frag.Ids : frag.Ids[z].fld = fld /\ frag.Ids[z].uid = uid
    IN  frag.Ids[y].attr

\* C19: when the same uid occurs in the same field in several of the
\* fragments fused for one term, with different position attributes, the
\* fused InvDocument holds that uid exactly once in that field and carries
\* the position attribute of the first fragment, in fusion order, that
\* mentions it.
C19_FuserFirstWins ==
    \A r \in DOMAIN gOut :
        LET sibs == gAll[gOut[r].Index].Sibs
            ids == gOut[r].Text.Ids
        IN  \A fld \in Range(FieldList), uid \in FuseUids :
                Len(Mentions(sibs, fld, uid)) > 0 =>
                    /\ Cardinality({y \in DOMAIN ids :
                                       ids[y].fld = fld /\ ids[y].uid = uid}) = 1
                    /\ \A y \in DOMAIN ids :
                           (ids[y].fld = fld /\ ids[y].uid = uid) =>
                               ids[y].attr = AttrIn(sibs[Mentions(sibs, fld, uid)[1]], fld, uid)

\* the fused InvDocument holds every mentioned uid once per field
FuserDeduplicates ==
    \A r \in DOMAIN gOut :
        LET sibs == gAll[gOut[r].Index].Sibs
            ids == gOut[r].Text.Ids
        IN  \A fld \in Range(FieldList), uid \in FuseUids :
                Cardinality({y \in DOMAIN ids : ids[y].fld = fld /\ ids[y].uid = uid})
                    = IF Len(Mentions(sibs, fld, uid)) > 0 THEN 1 ELSE 0

(***************************************************************************)
(* CreatePromoters: getOnePosting, addOnePosting, topOffMaster,            *)
(* writeFiveFiles, processOneField.  The buffers hold values, not bytes:   *)
(* termList is a sequence of characters, indxList, postList and uqidList   *)
(* are sequences of 32-bit values and ofstList is a sequence of 16-bit     *)
(* values.  The counters stay far below 2^31 here.                         *)
(***************************************************************************)
DigitList == <<"0", "1", "2", "3", "4", "5", "6", "7", "8", "9">>

RECURSIVE Itoa(_)
\* strconv.Itoa, for n >= 0
Itoa(n) == IF n < 10 THEN <<DigitList[n + 1]>> ELSE Itoa(n \div 10) \o <<DigitList[(n % 10) + 1]>>

RECURSIVE parseDigits(_, _, _)
\* the digits of str from position n on, added to acc; err when a character
\* is no digit or the value leaves the range of int32
parseDigits(str, n, acc) ==
    IF n > Len(str) THEN [err |-> FALSE, value |-> acc]
    ELSE IF ~IsDigit(str[n]) THEN [err |-> TRUE, value |-> 0]
    ELSE IF acc > 214748364 \/ (acc = 214748364 /\ DigitValue(str[n]) > 7)
         THEN [err |-> TRUE, value |-> 0]
    ELSE parseDigits(str, n + 1, acc * 10 + DigitValue(str[n]))

\* strconv.ParseInt(str, 10, 32) on a string without sign
ParseInt(str) ==
    IF Len(str) = 0 THEN [err |-> TRUE, value |-> 0] ELSE parseDigits(str, 1, 0)

\* int16(value)
ToInt16(value) == ((value + 32768) % 65536) - 32768

\* strings.ToLower, on one character
ToLowerChar(ch) ==
    CASE ch = "A" -> "a"
      [] ch = "N" -> "n"
      [] ch = "P" -> "p"
      [] ch = "U" -> "u"
      [] OTHER -> ch

ToLower(str) == [x \in DOMAIN str |-> ToLowerChar(str[x])]

\* the entries of TrieLen whose keys are made of the characters used here
TrieLen == [key \in {<<"a", "1">>, <<"a", "n">>, <<"a", "p">>, <<"n", "0">>, <<"p", "a">>} |->
                IF key \in {<<"a", "1">>, <<"n", "0">>} THEN 3 ELSE 4]

\* a directory that is the whole term
PostingDirWholeTerm(trm) == trm

PostingDir(trm) ==
    IF Len(trm) < 3 THEN trm
    ELSE LET key == SubSeq(trm, 1, 2)
         IN  IF key \in DOMAIN TrieLen /\ Len(trm) >= TrieLen[key]
             THEN SubSeq(trm, 1, TrieLen[key])
             ELSE IF trm[1] \in {"u", "v", "w", "x", "y", "z"}
                  THEN SubSeq(trm, 1, 2)
                  ELSE SubSeq(trm, 1, 3)

IdentifierKey(trm) ==
    LET kept == SelectSeq(trm, LAMBDA c : IsLetter(c) \/ IsDigit(c) \/ c \in {" ", "-", "_"})
        key == [x \in DOMAIN kept |-> IF kept[x] \in {" ", "-"} THEN "_" ELSE kept[x]]
    IN  PostingDir(key)

RECURSIVE doPromote(_, _, _, _)
\* the calls of doPromote for the postings of one InvDocument: data and atts
\* as getOnePosting collects them
doPromote(field, ids, n, acc) ==
    IF n > Len(ids) THEN acc
    ELSE IF ids[n].fld # field THEN doPromote(field, ids, n + 1, acc)
    ELSE LET parsed == ParseInt(ids[n].uid)
         IN  IF parsed.err THEN doPromote(field, ids, n + 1, acc)
             ELSE doPromote(field, ids, n + 1,
                      [data |-> Append(acc.data, parsed.value),
                       atts |-> IF ids[n].attr # <<>> THEN Append(acc.atts, ids[n].attr)
                                ELSE acc.atts])

\* term is <<>> when getOnePosting returns "", nil, nil
getOnePosting(field, text) ==
    LET trm == ToLower(text.Key)
        got == doPromote(field, text.Ids, 1, [data |-> <<>>, atts |-> <<>>])
    IN  IF trm = <<>> \/ Len(got.data) < 1
        THEN [term |-> <<>>, data |-> <<>>, atts |-> <<>>]
        ELSE [term |-> trm, data |-> got.data, atts |-> got.atts]

EmptyBuf ==
    [termPos |-> 0, postPos |-> 0, ofstPos |-> 0, indxList |-> <<>>, termList |-> <<>>,
     postList |-> <<>>, uqidList |-> <<>>, ofstList |-> <<>>]

RECURSIVE ofstLoop(_, _, _)
\* `for _, att := range atrs`: the positions of one uid; err when ParseInt
\* fails
ofstLoop(buf, atrs, n) ==
    IF n > Len(atrs) THEN [err |-> FALSE, buf |-> buf]
    ELSE IF atrs[n] = <<>> THEN ofstLoop(buf, atrs, n + 1)
    ELSE LET parsed == ParseInt(atrs[n])
         IN  IF parsed.err THEN [err |-> TRUE, buf |-> buf]
             ELSE ofstLoop([buf EXCEPT !.ofstList = Append(@, ToInt16(parsed.value))],
                           atrs, n + 1)

RECURSIVE uqidLoop(_, _, _)
\* `for _, attr := range atts`
uqidLoop(buf, atts, n) ==
    IF n > Len(atts) THEN buf
    ELSE LET marked == [buf EXCEPT !.uqidList = Append(@, buf.ofstPos)]
             done == ofstLoop(marked, atts[n], 1)
         IN  IF done.err THEN done.buf
             ELSE uqidLoop([done.buf EXCEPT !.ofstPos = @ + Len(atts[n]) * 2], atts, n + 1)

\* the offsets of a term with the postings offset first
indexEntrySwapped(buf) == <<buf.postPos, buf.termPos>>

\* the offsets added to indxList for one term
indexEntry(buf) == <<buf.termPos, buf.postPos>>

addOnePosting(buf, trm, data, atts) ==
    LET tlength == Len(trm)
        dlength == Len(data)
        alength == Len(atts)
        base == [buf EXCEPT !.termList = @ \o trm \o <<"\n">>,
                            !.postList = @ \o data,
                            !.indxList = @ \o indexEntry(buf),
                            !.postPos = @ + dlength * 4,
                            !.termPos = @ + tlength + 1]
    IN  IF alength < 1 THEN base
        ELSE IF dlength # alength THEN base
        ELSE uqidLoop(base, atts, 1)

topOffMaster(buf) ==
    [buf EXCEPT !.indxList = @ \o <<buf.termPos, buf.postPos>>,
                !.uqidList = Append(@, buf.ofstPos)]

NoFiles ==
    [written |-> FALSE, positional |-> FALSE, trm |-> <<>>, pst |-> <<>>, mst |-> <<>>,
     uqi |-> <<>>, ofs |-> <<>>]

\* the directory of a non-empty tag of letters is never empty, so all files
\* are written
writeFiveFiles(buf) ==
    LET both == Len(buf.uqidList) > 0 /\ Len(buf.ofstList) > 0
    IN  [written |-> TRUE, positional |-> both,
         trm |-> buf.termList, pst |-> buf.postList, mst |-> buf.indxList,
         uqi |-> IF both THEN buf.uqidList ELSE <<>>,
         ofs |-> IF both THEN buf.ofstList ELSE <<>>]

\* the field whose files are followed
PromField == "TIAB"

\* one pass of `for _, str := range recs` in processOneField
AddOnePosting ==
    /\ pPc = "loop"
    /\ pRecs # <<>>
    /\ pRecs' = Tail(pRecs)
    /\ LET got == getOnePosting(PromField, Head(pRecs))
       IN  IF got.term = <<>> \/ got.data = <<>>
           THEN UNCHANGED <<pTag, pBuf, pAdded>>
           ELSE /\ pTag' = IF pTag = <<>> THEN IdentifierKey(got.term) ELSE pTag
                /\ pBuf' = addOnePosting(pBuf, got.term, got.data, got.atts)
                /\ pAdded' = Append(pAdded, got)
    /\ UNCHANGED <<pPc, pFiles>>
    /\ UNCHANGED notPromVars

\* the end of processOneField: topOffMaster, writeFiveFiles and the reset
FinishField ==
    /\ pPc = "loop"
    /\ pRecs = <<>>
    /\ pFiles' = IF pTag # <<>> THEN writeFiveFiles(topOffMaster(pBuf)) ELSE pFiles
    /\ pBuf' = EmptyBuf
    /\ pPc' = "done"
    /\ UNCHANGED <<pRecs, pTag, pAdded>>
    /\ UNCHANGED notPromVars

\* the uid strings of the documents indexed
PromUids == {<<"1">>, <<"2">>, <<"0", "1">>}

\* no pos attribute, pos="1", pos="1,3", pos="1,,3"
PromAttrs == {<<>>, << <<"1">> >>, << <<"1">>, <<"3">> >>, << <<"1">>, <<>>, <<"3">> >>}

\* the terms of one identifier key
PromTerms == << <<"n", "a", "n">>, <<"N", "a", "n", "a">> >>

\* the InvDocument that the mergers write for a term whose postings are given
\* as the map of fusePostings
PromDocument(trm, fields) == [Key |-> trm, Ids |-> fuseWrite(fields, 1)]

\* the maps of fusePostings: postings in PromField, or one in another field
PromMaps ==
    UNION {[{<<PromField, u>> : u \in U} -> PromAttrs] : U \in SUBSET PromUids}
        \cup [{<<"STEM", <<"1">>>>} -> {<<>>}]

PromStart(recs) ==
    /\ pRecs = recs
    /\ pTag = <<>>
    /\ pPc = "loop"
    /\ pBuf = EmptyBuf
    /\ pAdded = <<>>
    /\ pFiles = NoFiles

InitPromote ==
    /\ LateIdle
    /\ SetIdle /\ UnshIdle /\ MergeIdle /\ StashIdle /\ QueryIdle /\ FuseIdle /\ IndexIdle
    /\ SplitIdle
    /\ \E m1 \in PromMaps, m2 \in PromMaps :
           \E recs \in {<<PromDocument(PromTerms[1], m1)>>,
                        <<PromDocument(PromTerms[2], m2)>>,
                        <<PromDocument(PromTerms[1], m1), PromDocument(PromTerms[2], m2)>>} :
               PromStart(recs)

NextPromote == AddOnePosting \/ FinishField

SpecPromote == InitPromote /\ [][NextPromote]_vars

(***************************************************************************)
(* Properties of the promoted files (SpecPromote)                          *)
(***************************************************************************)
StrictlyAscending(seq) == \A x \in 1..(Len(seq) - 1) : seq[x] < seq[x + 1]

\* the term and postings offsets of entry i of a master index, i from 0
MstTerm(mst, i) == mst[2 * i + 1]

MstPost(mst, i) == mst[2 * i + 2]

\* the uids of term i (from 0) of the written files, read through .mst
PostingRun(fls, i) ==
    SubSeq(fls.pst, (MstPost(fls.mst, i) \div 4) + 1, MstPost(fls.mst, i + 1) \div 4)

\* the characters of term i (from 0) of the written files, read through .mst
TermRun(fls, i) ==
    SubSeq(fls.trm, MstTerm(fls.mst, i) + 1, MstTerm(fls.mst, i + 1) - 1)

\* C15: for every term of a promoted field and bucket, the uids written to
\* .pst for the term are strictly ascending, without duplicates, whatever
\* uid strings the mergers pass to the promoter.
C15_PostingsAscending ==
    pFiles.written =>
        \A i \in 0..(Len(pAdded) - 1) : StrictlyAscending(PostingRun(pFiles, i))

\* the promoter's postings for uid strings written by strconv.Itoa (no
\* leading zeros) are strictly ascending
CanonicalUids == {Itoa(n) : n \in {1, 2, 9, 10, 11, 100}}

CanonicalPostingsAscending ==
    \A U \in SUBSET CanonicalUids :
        LET doc == PromDocument(PromTerms[1], [k \in {<<PromField, u>> : u \in U} |-> <<>>])
        IN  StrictlyAscending(getOnePosting(PromField, doc).data)

\* C17: the master index of a promoted field and bucket with n terms holds n
\* entries and a sentinel; entry 0 is (0, 0); consecutive term offsets differ
\* by the byte length of the term plus one, consecutive postings offsets by
\* four times the number of uids of the term; the sentinel holds the lengths
\* of .trm and .pst.
C17_MasterIndex ==
    pFiles.written =>
        LET n == Len(pAdded)
            mst == pFiles.mst
        IN  /\ Len(mst) = 2 * (n + 1)
            /\ Cardinality({x \in DOMAIN pFiles.trm : pFiles.trm[x] = "\n"}) = n
            /\ MstTerm(mst, 0) = 0 /\ MstPost(mst, 0) = 0
            /\ \A i \in 0..(n - 1) :
                   /\ MstTerm(mst, i + 1) - MstTerm(mst, i) - 1 = Len(pAdded[i + 1].term)
                   /\ MstPost(mst, i + 1) - MstPost(mst, i) = 4 * Len(pAdded[i + 1].data)
                   /\ TermRun(pFiles, i) = pAdded[i + 1].term
                   /\ PostingRun(pFiles, i) = pAdded[i + 1].data
            /\ MstTerm(mst, n) = Len(pFiles.trm)
            /\ MstPost(mst, n) = 4 * Len(pFiles.pst)

\* two terms of different lengths, with different numbers of uids, promoted
C17_Witness ==
    /\ pFiles.written
    /\ Len(pAdded) = 2
    /\ Len(pAdded[1].data) = 2
    /\ Len(pAdded[2].data) = 1
    /\ pFiles.mst = <<0, 0, 4, 8, 9, 12>>

\* C18: whenever .uqi is written for a field and bucket it holds one entry
\* for each uid of .pst, in the same order, and one sentinel, so that the
\* entry of the uid at byte offset o of .pst is at byte offset o of .uqi.
C18_UqiParallel ==
    (pFiles.written /\ pFiles.positional) =>
        /\ Len(pFiles.uqi) = Len(pFiles.pst) + 1
        /\ \A x \in DOMAIN pFiles.pst : pFiles.uqi[x + 1] >= pFiles.uqi[x]

\* .uqi is parallel to .pst when every posting of the field carries a pos
\* attribute
AllPositional == \A x \in DOMAIN pAdded : Len(pAdded[x].atts) = Len(pAdded[x].data)

UqiParallelWhenAllPositional ==
    (pFiles.written /\ pFiles.positional /\ AllPositional) =>
        Len(pFiles.uqi) = Len(pFiles.pst) + 1

RECURSIVE WrittenAtts(_, _)
\* the pos attributes that addOnePosting went through, term after term: those
\* of the terms that have one for every uid
WrittenAtts(added, n) ==
    IF n > Len(added) THEN <<>>
    ELSE (IF Len(added[n].atts) = Len(added[n].data) THEN added[n].atts ELSE <<>>)
             \o WrittenAtts(added, n + 1)

\* the number of positions of a pos attribute: its items that are not empty
PositionCount(attr) == Len(SelectSeq(attr, LAMBDA item : item # <<>>))

\* C31: for every uid of a positional field and bucket, uqi[j+1] - uqi[j] is
\* twice the number of 16-bit positions written to .ofs for the uid, and the
\* last entry of .uqi is the length of .ofs in bytes, also for pos attributes
\* with empty items between commas.
C31_OffsetsMatchPositions ==
    (pFiles.written /\ pFiles.positional) =>
        LET atts == WrittenAtts(pAdded, 1)
        IN  /\ Len(pFiles.uqi) = Len(atts) + 1
            /\ \A x \in DOMAIN atts :
                   pFiles.uqi[x + 1] - pFiles.uqi[x] = 2 * PositionCount(atts[x])
            /\ pFiles.uqi[Len(pFiles.uqi)] = 2 * Len(pFiles.ofs)

\* no pos attribute has an empty item
NoEmptyItems ==
    \A x \in DOMAIN pAdded : \A y \in DOMAIN pAdded[x].atts :
        PositionCount(pAdded[x].atts[y]) = Len(pAdded[x].atts[y])

\* the offsets match the positions when no pos attribute has an empty item
OffsetsMatchWithoutEmptyItems ==
    (pFiles.written /\ pFiles.positional /\ NoEmptyItems) =>
        LET atts == WrittenAtts(pAdded, 1)
        IN  /\ Len(pFiles.uqi) = Len(atts) + 1
            /\ \A x \in DOMAIN atts :
                   pFiles.uqi[x + 1] - pFiles.uqi[x] = 2 * PositionCount(atts[x])
            /\ pFiles.uqi[Len(pFiles.uqi)] = 2 * Len(pFiles.ofs)

\* an empty item is counted in .uqi and not written to .ofs
EmptyItemIsCounted ==
    (/\ pFiles.written /\ pFiles.positional /\ Len(pAdded) = 1
     /\ pAdded[1].atts = << << <<"1">>, <<>>, <<"3">> >> >>)
        => pFiles.uqi = <<0, 6>> /\ pFiles.ofs = <<1, 3>>

(***************************************************************************)
(* processClause, INDICES: the positions of one term of one document, from *)
(* the indexer to the promoter's .ofs.  An element of the document is the  *)
(* number of its words and the places among them where the term stands;    *)
(* the inverter and the mergers pass the pos attribute on as written.      *)
(***************************************************************************)
\* the largest number of elements (paragraphs) of the document
MaxParas == 3

\* the numbers of words of an element
ParaLens == {1, 80, 85, 100, 16350}

\* the elements: the term stands nowhere, first, or first and last
Paras ==
    {[words |-> n, at |-> <<>>] : n \in ParaLens}
        \cup {[words |-> n, at |-> <<1>>] : n \in ParaLens}
        \cup {[words |-> n, at |-> <<1, n>>] : n \in ParaLens \ {1}}

\* the next multiple of 100, whatever the distance
padToHundred(cum) == ((cum + 99) \div 100) * 100

\* pad to avoid false positive proximity match of words in adjacent paragraphs
padCumulative(cum) ==
    LET rounded == ((cum + 99) \div 100) * 100
    IN  IF rounded - cum < 20 THEN rounded + 100 ELSE rounded

\* the term and the uid of the document
IndexTerm == <<"n", "a", "n">>

IndexUid == <<"1">>

InitPositions ==
    /\ LateIdle
    /\ SetIdle /\ UnshIdle /\ MergeIdle /\ StashIdle /\ QueryIdle /\ FuseIdle /\ SplitIdle
    /\ pRecs = <<>> /\ pTag = <<>> /\ pPc = "wait" /\ pBuf = EmptyBuf
    /\ pAdded = <<>> /\ pFiles = NoFiles
    /\ xPc = "index"
    /\ xParas = <<>>
    /\ cumulative = 0
    /\ xPos = <<>>

\* the callback of processElement for one element: cumulative++ for every
\* word, addItem(tiab, item, cumulative) where the term stands, and the padding
ProcessElement(para) ==
    /\ xPc = "index"
    /\ Len(xParas) < MaxParas
    /\ xParas' = Append(xParas, para)
    /\ xPos' = xPos \o [x \in DOMAIN para.at |-> Itoa(cumulative + para.at[x])]
    /\ cumulative' = padCumulative(cumulative + para.words)
    /\ UNCHANGED xPc
    /\ UNCHANGED notIndexVars

\* prepareIndices(tiab, "TIAB"), and the record that reaches the promoter
EmitIndices ==
    /\ xPc = "index"
    /\ xPc' = "done"
    /\ pRecs' = IF Len(xPos) > 0
                THEN <<PromDocument(IndexTerm, (<<PromField, IndexUid>> :> xPos))>>
                ELSE <<>>
    /\ pPc' = "loop"
    /\ UNCHANGED <<pTag, pBuf, pAdded, pFiles>>
    /\ UNCHANGED <<xParas, cumulative, xPos>>
    /\ UNCHANGED notPipeVars

NextPositions ==
    \/ \E para \in Paras : ProcessElement(para)
    \/ EmitIndices
    \/ AddOnePosting
    \/ FinishField

SpecPositions == InitPositions /\ [][NextPositions]_vars

\* the positions of the x-th uid of the written files, read through .uqi
PositionRun(fls, x) == SubSeq(fls.ofs, (fls.uqi[x] \div 2) + 1, fls.uqi[x + 1] \div 2)

\* C16: for every uid of every positional term, the 16-bit positions stored
\* in .ofs for the uid are strictly ascending, whatever the number of words
\* and paragraphs of the document.
C16_PositionsAscending ==
    (pFiles.written /\ pFiles.positional) =>
        \A x \in 1..(Len(pFiles.uqi) - 1) : StrictlyAscending(PositionRun(pFiles, x))

\* the positions are strictly ascending when the word counter of the document
\* stays below 2^15
PositionsAscendingBelow32768 ==
    (pFiles.written /\ pFiles.positional /\ cumulative < 32768) =>
        \A x \in 1..(Len(pFiles.uqi) - 1) : StrictlyAscending(PositionRun(pFiles, x))

(***************************************************************************)
(* CreateSplitter: xmlSplitter.  os.Create succeeds, so openSaver returns  *)
(* a file and a writer.                                                    *)
(***************************************************************************)
\* the entries of MergLen whose keys are made of the characters used here
MergLen == [key \in {<<"a", "n", "a">>, <<"a", "p", "p">>} |-> 4]

\* the last two characters instead of the first ones
truncateTagAtEnd(tag) == IF Len(tag) > 2 THEN SubSeq(tag, Len(tag) - 1, Len(tag)) ELSE tag

\* then truncate to 2, 3, or 4 character prefix
truncateTag(tag) ==
    IF Len(tag) > 2
    THEN LET key == SubSeq(tag, 1, 2)
         IN  IF key \in DOMAIN TrieLen
             THEN IF TrieLen[key] > 3 /\ Len(tag) > 3
                  THEN IF SubSeq(tag, 1, 3) \in DOMAIN MergLen /\ MergLen[SubSeq(tag, 1, 3)] > 3
                       THEN SubSeq(tag, 1, 4)
                       ELSE SubSeq(tag, 1, 3)
                  ELSE IF TrieLen[key] > 2 THEN SubSeq(tag, 1, 3)
                  ELSE SubSeq(tag, 1, 2)
             ELSE SubSeq(tag, 1, 2)
    ELSE tag

\* the identifiers of the merged records, in the order of the merged stream
SplitIdents ==
    << <<".">>, <<"a", " ", "n">>, <<"a", "n">>, <<"a", "n", " ", "a">>, <<"a", "n", "a">>,
       <<"a", "n", "a", "n">>, <<"a", "n", "n">>, <<"n", "a">>, <<"n", "a", "n">>,
       <<"p", "a">> >>

\* the merged streams: the records of some of the identifiers, in order
SplitStreams ==
    {SelectSeq([x \in DOMAIN SplitIdents |-> [Ident |-> SplitIdents[x], Text |-> SplitIdents[x]]],
               LAMBDA r : r.Ident \in S) : S \in SUBSET Range(SplitIdents)}

InitSplit ==
    /\ LateIdle
    /\ SetIdle /\ UnshIdle /\ MergeIdle /\ StashIdle /\ QueryIdle /\ FuseIdle /\ IndexIdle
    /\ PromIdle
    /\ tInp \in SplitStreams
    /\ tPc = "loop"
    /\ fl = <<>>
    /\ wrtr = <<>>
    /\ currTag = <<>>
    /\ prevTag = <<>>
    /\ prev = <<>>
    /\ tClosed = <<>>
    /\ tOut = <<>>

\* one pass of `for curr := range inp`
SplitRecord ==
    /\ tPc = "loop"
    /\ tInp # <<>>
    /\ tInp' = Tail(tInp)
    /\ LET curr == Head(tInp)
           tag == LET key == IdentifierKey(curr.Ident)
                  IN  IF key = <<>> THEN key ELSE truncateTag(key)
       IN  /\ currTag' = tag
           /\ IF tag = <<>>
              THEN UNCHANGED <<fl, wrtr, prevTag, prev, tClosed, tOut>>
              ELSE LET fl1 == IF fl = <<>> THEN tag ELSE fl
                       changed == prev # <<>> /\ prevTag # tag
                   IN  /\ tClosed' = IF changed
                                     THEN Append(tClosed, [name |-> fl1, recs |-> wrtr])
                                     ELSE tClosed
                       /\ tOut' = IF changed THEN Append(tOut, tag) ELSE tOut
                       /\ fl' = IF changed THEN tag ELSE fl1
                       /\ wrtr' = IF changed THEN <<curr.Text>> ELSE Append(wrtr, curr.Text)
                       /\ prev' = <<curr>>
                       /\ prevTag' = tag
    /\ UNCHANGED tPc
    /\ UNCHANGED notSplitVars

\* after the loop: the last closing tag, closeSaver, the last send, close(out)
SplitFinish ==
    /\ tPc = "loop"
    /\ tInp = <<>>
    /\ tPc' = "done"
    /\ IF prev # <<>>
       THEN /\ tClosed' = Append(tClosed, [name |-> fl, recs |-> wrtr])
            /\ tOut' = Append(tOut, currTag)
       ELSE UNCHANGED <<tClosed, tOut>>
    /\ UNCHANGED <<tInp, fl, wrtr, currTag, prevTag, prev>>
    /\ UNCHANGED notSplitVars

NextSplit == SplitRecord \/ SplitFinish

SpecSplit == InitSplit /\ [][NextSplit]_vars

\* C20: for every bucket file that the splitter writes and closes it sends
\* the name of that bucket on out, once, after the file is closed: the names
\* sent are the names of the closed bucket files, in the same order.
C20_SplitterSignalsClosed ==
    /\ Len(tOut) <= Len(tClosed)
    /\ \A x \in DOMAIN tOut : tOut[x] = tClosed[x].name
    /\ tPc = "done" => Len(tOut) = Len(tClosed)

\* the splitter sends one name for every bucket file it closes
SplitterSignalCount == Len(tOut) = Len(tClosed)

\* with records of one bucket only, the name sent is the name of the file
SplitterOneBucket ==
    (tPc = "done" /\ Len(tClosed) = 1) => tOut = <<tClosed[1].name>>

(***************************************************************************)
(* Properties of lockFile and of the loop of stashRecord (SpecStash)       *)
(***************************************************************************)
\* worker w takes one turn of `for keepChecking` in this step
LockTurn(w) == sPc[w] = "lock" /\ (sPc'[w] # "lock" \/ attempts'[w] # attempts[w])

\* the step leaves the archive and the map of keys in use as they were
NothingWritten == files' = files /\ inUse' = inUse

C22_KeyStateMachine ==
    [][\A w \in Stashers :
           (LockTurn(w) /\ StashId(sExt[w]) \in DOMAIN inUse) =>
               LET held == inUse[StashId(sExt[w])]
                   v == sExt[w].Index
               IN  /\ v < held => (sPc'[w] = "send" /\ NothingWritten)
                   /\ v > held => (sPc'[w] = "lock" /\ attempts'[w] = attempts[w] - 1)
                   /\ v = held => sPc'[w] = "create"]_vars

\* a stash has found the key held by a later version, and one has found it
\* held by an earlier version
LaterVersionHeld ==
    \E w \in Stashers :
        /\ sPc[w] = "lock"
        /\ StashId(sExt[w]) \in DOMAIN inUse
        /\ inUse[StashId(sExt[w])] > sExt[w].Index

WaitedThenWrote ==
    \E w \in Stashers : sPc[w] = "lock" /\ attempts[w] < Attempts
                            /\ StashId(sExt[w]) \notin DOMAIN inUse

(***************************************************************************)
(* Malformed queries (SpecSyntax): evaluateQuery on token sequences with   *)
(* an error of syntax, over every index of the plain documents.            *)
(***************************************************************************)
\* the largest number of tokens of a malformed query
MaxQueryLen == 4

SyntaxTokens == {<<"a">>, <<UnknownWord>>, Amp, Bar, Bang, Open, Close}

IsWordTkn(tkn) == tkn # EndTkn /\ ~IsBoolOp(tkn) /\ tkn # Open /\ tkn # Close

\* a `)` that closes nothing
UnexpectedClose(q) ==
    \E x \in DOMAIN q :
        Cardinality({y \in 1..x : q[y] = Close}) > Cardinality({y \in 1..x : q[y] = Open})

\* a binary operator where an operand is expected
OperatorForOperand(q) ==
    \E x \in DOMAIN q :
        IsBoolOp(q[x]) /\ (x = 1 \/ IsBoolOp(q[x - 1]) \/ q[x - 1] = Open)

\* a `(` that is never closed
UnterminatedOpen(q) ==
    Cardinality({y \in DOMAIN q : q[y] = Open}) > Cardinality({y \in DOMAIN q : q[y] = Close})

\* an operand that follows a complete operand without an operator
TrailingTokens(q) ==
    \E x \in DOMAIN q :
        x > 1 /\ (IsWordTkn(q[x]) \/ q[x] = Open) /\ (IsWordTkn(q[x - 1]) \/ q[x - 1] = Close)

Malformed(q) ==
    UnexpectedClose(q) \/ OperatorForOperand(q) \/ UnterminatedOpen(q) \/ TrailingTokens(q)

\* the malformed token sequences; adjacent words do not occur, the words of a
\* phrase being one token
MalformedQueries ==
    {q \in SeqsUpTo(SyntaxTokens, MaxQueryLen) :
        /\ q # <<>>
        /\ Malformed(q)
        /\ \A x \in DOMAIN q : x > 1 => ~(IsWordTkn(q[x]) /\ IsWordTkn(q[x - 1]))}

InitSyntax ==
    /\ LateIdle
    /\ SetIdle /\ UnshIdle /\ MergeIdle /\ StashIdle /\ FuseIdle /\ IndexIdle /\ PromIdle
    /\ SplitIdle
    /\ qDocs \in PlainDocuments
    /\ qClauses \in MalformedQueries
    /\ QueryStart

SpecSyntax == InitSyntax /\ [][NextQuery]_vars

\* C24: every query with an unexpected `)`, a binary operator where an
\* operand is expected, an unterminated `(` or tokens after the end of the
\* top-level expression ends in a fatal error, whatever the index contains,
\* and never in a normal result.
C24_SyntaxErrorsFatal ==
    (qPc = "evaluated" /\ Malformed(qClauses)) => qHalt = "exit"

\* the words of the query that are in the index
AllWordsIndexed(docs, q) ==
    \A x \in DOMAIN q : IsWordTkn(q[x]) => UidsWith(docs, q[x][1]) # <<>>

\* a malformed query whose words all have postings ends in a fatal error
SyntaxErrorsFatalWhenIndexed ==
    (qPc = "evaluated" /\ Malformed(qClauses) /\ AllWordsIndexed(qDocs, qClauses)) =>
        qHalt = "exit"

(***************************************************************************)
(* The path of a record in the archive: stashRecord strips the version,    *)
(* asks MakeArchiveTrie for the directory and joins the identifier and the *)
(* suffix to it.                                                           *)
(***************************************************************************)
MaxLetters == 5

\* the letters of the accession prefixes: N P A N P ...
PrefixLetter(x) == <<"N", "P", "A">>[((x - 1) % 3) + 1]

ArchivePrefixes ==
    LET runs == {[x \in 1..n |-> PrefixLetter(x)] : n \in 0..MaxLetters}
    IN  runs \cup {Append(r, "_") : r \in runs} \cup {ToLower(r) : r \in runs}

ArchiveNumbers ==
    {<<"1">>, <<"1", "2", "3", "4", "5">>, <<"0", "6", "0", "0", "5", "1">>,
     <<"1", "2", "3", "4", "5", "6", "7", "8", "9">>}

ArchiveVersions == {<<>>, <<".", "2">>}

ArchiveIds ==
    {p \o n \o v : p \in ArchivePrefixes, n \in ArchiveNumbers, v \in ArchiveVersions}
        \cup {[x \in 1..(MaxIdentLen + 1) |-> "1"]}
        \cup {IdentNone, <<".", "2">>}

InitArchivePath ==
    /\ SetIdle /\ UnshIdle /\ MergeIdle /\ StashIdle
    /\ QueryIdle /\ FuseIdle /\ IndexIdle /\ PromIdle /\ SplitIdle /\ DispIdle /\ LookIdle /\ PoolIdle
    /\ aPc = "start" /\ aId \in ArchiveIds /\ aDir = <<>> /\ aBase = <<>>
    /\ kPc = "idle" /\ kInp = <<>> /\ kRes = <<>>

notArchiveVars ==
    <<setVars, unshVars, mergeVars, stashVars, queryVars, fuseVars, indexVars, promVars,
      splitVars, dispVars, lookVars, poolVars>>

\* stashRecord up to fpath := path.Join(dpath, id+sfx)
ArchivePath ==
    /\ aPc = "start"
    /\ LET id == RemoveVersion(aId)
           trie == MakeArchiveTrie(id)
       IN  IF trie = <<>>
           THEN aPc' = "skipped" /\ UNCHANGED <<aDir, aBase>>
           ELSE aPc' = "done" /\ aDir' = trie /\ aBase' = id
    /\ UNCHANGED <<aId, kPc, kInp, kRes>>
    /\ UNCHANGED notArchiveVars

SpecArchivePath == InitArchivePath /\ [][ArchivePath]_vars

\* str cut into two-character directories, each followed by a slash
PairDirs(str) ==
    LET n == Len(str)
        len == n + ((n + 1) \div 2)
    IN  [j \in 1..len |-> IF j % 3 = 0 \/ j = len THEN "/" ELSE str[j - (j \div 3)]]

UpperCased(str) == [x \in DOMAIN str |-> ToUpper(str[x])]

Id12345 == <<"1", "2", "3", "4", "5">>

\* C25: an all-digit identifier is zero-padded to 8 characters and the padded
\* form names both the directory and the stored file: "12345" is stored as
\* "00012345" in the directory "00/01/23/45/".
C25_NumericPath ==
    (aPc = "done" /\ IsAllDigits(aId) /\ Len(aId) <= PadLen) =>
        /\ aDir = PairDirs(PadWithZeros(aId))
        /\ aBase = PadWithZeros(aId)
        /\ aId = Id12345 =>
               /\ aDir = <<"0", "0", "/", "0", "1", "/", "2", "3", "/", "4", "5", "/">>
               /\ aBase = <<"0", "0", "0", "1", "2", "3", "4", "5">>

\* what the code does with "12345": the directory comes from the first six
\* characters of the padded form, the file keeps the identifier as given
NumericPathOf12345 ==
    (aPc = "done" /\ aId = Id12345) =>
        /\ aDir = <<"0", "0", "/", "0", "1", "/", "2", "3", "/">>
        /\ aBase = Id12345

\* the length of the prefix the accession rule speaks of: up to 3 letters, or
\* up to 4 letters and the underscore after them; 0 when the rule does not
\* apply
AccessionPrefix(id) ==
    LET k == LeadingLetters(id, 1)
        under == k < Len(id) /\ id[k + 1] = "_"
    IN  IF under /\ k <= 4 THEN k + 1
        ELSE IF ~under /\ k >= 1 /\ k <= 3 THEN k
        ELSE 0

IdNP060051v2 == <<"N", "P", "_", "0", "6", "0", "0", "5", "1", ".", "2">>

\* C26: the prefix of an accession (up to 3 letters, or up to 4 letters and an
\* underscore) is the top directory, the remainder up to the first period is
\* cut into two-character directories, the whole is upper-cased and ends in a
\* slash; "NP_060051.2" has the directory "NP_/06/00/51/" and the basename
\* "NP_060051".
C26_AccessionPath ==
    (aPc = "done" /\ AccessionPrefix(aId) > 0) =>
        LET k == AccessionPrefix(aId)
            stem == IF IndexOfPeriod(aId) > 0 THEN SubSeq(aId, 1, IndexOfPeriod(aId) - 1)
                    ELSE aId
        IN  /\ aDir = UpperCased(SubSeq(stem, 1, k) \o <<"/">>
                                     \o PairDirs(SubSeq(stem, k + 1, Len(stem))))
            /\ aDir[Len(aDir)] = "/"
            /\ aId = IdNP060051v2 =>
                   /\ aDir = <<"N", "P", "_", "/", "0", "6", "/", "0", "0", "/", "5", "1", "/">>
                   /\ aBase = <<"N", "P", "_", "0", "6", "0", "0", "5", "1">>

C26_Witness ==
    /\ aPc = "done" /\ aId = IdNP060051v2
    /\ aDir = <<"N", "P", "_", "/", "0", "6", "/", "0", "0", "/", "5", "1", "/">>

\* a prefix of four letters and an underscore is a top directory too
FourLetterPrefix ==
    /\ aPc = "done" /\ LeadingLetters(aId, 1) = 4 /\ AccessionPrefix(aId) = 5
    /\ SubSeq(aDir, 1, 6) = <<"N", "P", "A", "N", "_", "/">>

(***************************************************************************)
(* The path of the postings of a term: PostingPath.                        *)
(***************************************************************************)
MaxTermLen == 4

MaxTailLen == 2

TermChars == {"a", "n", "u", "0", "."}

TailChars == {"a", "."}

StringsUpTo(chars, n) == UNION {[1..m -> chars] : m \in 0..n}

\* pairs of terms of which the second shares the first j characters of the
\* first and goes on with a tail of its own
TermPairs(n, m) ==
    {<<x[1], SubSeq(x[1], 1, x[2]) \o x[3]>> :
        x \in {y \in StringsUpTo(TermChars, n) \X (0..n) \X StringsUpTo(TailChars, m) :
                 y[2] <= Len(y[1])}}

RECURSIVE trieLoop(_, _)
\* the loop of MakePostingsTrie: a slash before every character but the first
trieLoop(str, n) ==
    IF n > Len(str) THEN <<>>
    ELSE LET ch == IF IsLetter(str[n]) \/ IsDigit(str[n]) THEN str[n] ELSE "_"
         IN  (IF n > 1 THEN <<"/">> ELSE <<>>) \o <<ch>> \o trieLoop(str, n + 1)

MaxPostingLen == 256

MakePostingsTrie(str) ==
    IF Len(str) > MaxPostingLen THEN <<>> ELSE ToLower(trieLoop(str, 1))

\* dpath is the list of the elements that path.Join joins below prom
PostingPath(field, trm) ==
    LET dir == IdentifierKey(trm)
        trie == MakePostingsTrie(dir)
    IN  IF trie = <<>> THEN [dpath |-> <<>>, dir |-> <<>>]
        ELSE [dpath |-> <<field, trie>>, dir |-> dir]

\* a term of more characters than MakePostingsTrie takes
LongTerm == [x \in 1..(MaxPostingLen + 1) |-> "a"]

InitPostingPath ==
    /\ SetIdle /\ UnshIdle /\ MergeIdle /\ StashIdle
    /\ QueryIdle /\ FuseIdle /\ IndexIdle /\ PromIdle /\ SplitIdle /\ DispIdle /\ LookIdle /\ PoolIdle
    /\ aPc = "idle" /\ aId = <<>> /\ aDir = <<>> /\ aBase = <<>>
    /\ kPc = "start" /\ kRes = <<>>
    /\ \E f \in {"TIAB", "STEM"}, ts \in TermPairs(MaxTermLen, MaxTailLen) \cup {<<LongTerm, <<>>>>} :
           kInp = [field |-> f, terms |-> ts]

PostingPaths ==
    /\ kPc = "start"
    /\ kPc' = "done"
    /\ kRes' = [x \in 1..2 |-> PostingPath(kInp.field, kInp.terms[x])]
    /\ UNCHANGED <<kInp, aPc, aId, aDir, aBase>>
    /\ UNCHANGED notArchiveVars

SpecPostingPath == InitPostingPath /\ [][PostingPaths]_vars

\* the term without its punctuation, spaces and hyphens as underscores
CleanedTerm(trm) ==
    LET kept == SelectSeq(trm, LAMBDA c : c \notin {".", ",", ":", ";"})
    IN  [x \in DOMAIN kept |-> IF kept[x] \in {" ", "-"} THEN "_" ELSE kept[x]]

FirstFour(str) == SubSeq(str, 1, IF Len(str) < 4 THEN Len(str) ELSE 4)

\* C27: the postings directory name of a term is a prefix of its cleaned form
\* of at most 4 characters, and two terms whose cleaned forms agree on their
\* first 4 characters have the same postings directory and bucket name.
C27_TrieDeterminism ==
    kPc = "done" =>
        /\ \A x \in 1..2 :
               LET dir == kRes[x].dir
                   cln == CleanedTerm(kInp.terms[x])
               IN  Len(dir) <= 4 /\ Len(dir) <= Len(cln) /\ dir = SubSeq(cln, 1, Len(dir))
        /\ FirstFour(CleanedTerm(kInp.terms[1])) = FirstFour(CleanedTerm(kInp.terms[2]))
               => kRes[1] = kRes[2]

C27_Witness ==
    /\ kPc = "done"
    /\ CleanedTerm(kInp.terms[1]) # CleanedTerm(kInp.terms[2])
    /\ FirstFour(CleanedTerm(kInp.terms[1])) = FirstFour(CleanedTerm(kInp.terms[2]))
    /\ Len(kRes[1].dir) = 4
    /\ kRes[1] = kRes[2]

\* terms in u..z have a directory of two characters
TwoCharacterDir ==
    /\ kPc = "done" /\ Len(kInp.terms[1]) > 3 /\ Len(kRes[1].dir) = 2
    /\ kInp.terms[1] # kInp.terms[2] /\ kRes[1] = kRes[2]

(***************************************************************************)
(* Chains of proximity tests: `w1 ~j w2 ~k w3`.                            *)
(***************************************************************************)
MaxChainLen == 5

\* the first document takes every arrangement of words, the others hold at
\* most one word
ChainDocuments(n) ==
    {[u \in Uids |-> IF u = UidList[1] THEN d ELSE e[u]] :
        d \in SeqsUpTo(Words, n), e \in [Uids -> SeqsUpTo(Words, 1)]}

ChainQueries ==
    {<<<<w[1]>>, Tildes(t[1]), <<w[2]>>, Tildes(t[2]), <<w[3]>>>> :
        w \in [1..3 -> Words], t \in [1..2 -> 1..MaxTildes]}

InitChain ==
    /\ LateIdle
    /\ SetIdle /\ UnshIdle /\ MergeIdle /\ StashIdle /\ FuseIdle /\ IndexIdle /\ PromIdle /\ SplitIdle
    /\ qDocs \in ChainDocuments(MaxChainLen)
    /\ qClauses \in ChainQueries
    /\ QueryStart

SpecChain == InitChain /\ [][NextQuery]_vars

IsChainQuery(q) == Len(q) = 5 /\ HasTildePrefix(q[2]) /\ HasTildePrefix(q[4])

\* doc has positions pa < pb <= pa + 1 + j of w1, w2 and pb < pc <= pb + 1 + k
\* of w3
IsChained(doc, w1, j, w2, k, w3) ==
    \E pa \in DOMAIN doc, pb \in DOMAIN doc, pc \in DOMAIN doc :
        /\ doc[pa] = w1 /\ doc[pb] = w2 /\ doc[pc] = w3
        /\ pa < pb /\ pb <= pa + 1 + j
        /\ pb < pc /\ pc <= pb + 1 + k

\* C28: a uid is in the result of the chain `a ~j b ~k c` of single words iff
\* it has positions pa, pb, pc of a, b, c with pa < pb <= pa + 1 + j and
\* pb < pc <= pb + 1 + k.
C28_ProximityChain ==
    (qPc = "evaluated" /\ IsChainQuery(qClauses)) =>
        /\ qHalt = ""
        /\ Elems(qData) = SelectSeq(UidList,
               LAMBDA u : IsChained(qDocs[u], qClauses[1][1], TildeCount(qClauses[2]),
                                    qClauses[3][1], TildeCount(qClauses[4]), qClauses[5][1]))

\* the uids of a chain's result all have such positions
ChainResultIsChained ==
    (qPc = "evaluated" /\ IsChainQuery(qClauses)) =>
        \A x \in DOMAIN Elems(qData) :
            IsChained(qDocs[Elems(qData)[x]], qClauses[1][1], TildeCount(qClauses[2]),
                      qClauses[3][1], TildeCount(qClauses[4]), qClauses[5][1])

\* `a ~ b ~ a` over "a b b b a": the b at 3 and the a at 5 pass the tests, and
\* the result is empty
ChainMissesLaterPosition ==
    (/\ qPc = "evaluated"
     /\ qClauses = <<<<"a">>, Tildes(1), <<"b">>, Tildes(1), <<"a">>>>
     /\ qDocs[UidList[1]] = <<"a", "b", "b", "b", "a">>)
        => Elems(qData) = <<>>

(***************************************************************************)
(* Precedence of the operators: queries of three and four words, without   *)
(* and with a pair of parentheses, over indexes in which every word has    *)
(* postings.                                                               *)
(***************************************************************************)
PrecWords == {"a", "b", "c"}

PrecDocuments ==
    [Uids -> {<<>>, <<"a">>, <<"b">>, <<"c">>, <<"a", "b">>, <<"a", "c">>, <<"b", "c">>,
              <<"a", "b", "c">>}]

OrAnd(w) == <<<<w[1]>>, Bar, <<w[2]>>, Amp, <<w[3]>>>>

AndNot(w) == <<<<w[1]>>, Amp, <<w[2]>>, Bang, <<w[3]>>>>

NotNot(w) == <<<<w[1]>>, Bang, <<w[2]>>, Bang, <<w[3]>>>>

GroupOrAnd(w) == <<Open, <<w[1]>>, Bar, <<w[2]>>, Close, Amp, <<w[3]>>>>

NotGroup(w) == <<<<w[1]>>, Bang, Open, <<w[2]>>, Amp, <<w[3]>>, Close>>

NotGroupOr(w) == NotGroup(w) \o <<Bar, <<w[4]>>>>

PrecQueries ==
    UNION {{OrAnd(w), AndNot(w), NotNot(w), GroupOrAnd(w), NotGroup(w), NotGroupOr(w)} :
               w \in [1..4 -> PrecWords]}

InitPrecedence ==
    /\ LateIdle
    /\ SetIdle /\ UnshIdle /\ MergeIdle /\ StashIdle /\ FuseIdle /\ IndexIdle /\ PromIdle /\ SplitIdle
    /\ qDocs \in {d \in PrecDocuments : \A w \in PrecWords : UidsWith(d, w) # <<>>}
    /\ qClauses \in PrecQueries
    /\ QueryStart

SpecPrecedence == InitPrecedence /\ [][NextQuery]_vars

\* P(w): the postings of word w
Postings(w) == getPostingIDs(qDocs, w, TRUE).Data

\* the evaluation of shape(w) ends normally with the uids of val(w)
ResultIs(shape(_), val(_)) ==
    \A w \in [1..4 -> PrecWords] :
        (qPc = "evaluated" /\ qClauses = shape(w)) =>
            qHalt = "" /\ Elems(qData) = Elems(val(w))

\* the same, a run-time panic of val(w) being a panic of the evaluation
ResultOrPanicIs(shape(_), val(_)) ==
    \A w \in [1..4 -> PrecWords] :
        (qPc = "evaluated" /\ qClauses = shape(w)) =>
            IF val(w).kind = "panic" THEN qHalt = "panic"
            ELSE qHalt = "" /\ Elems(qData) = Elems(val(w))

ValOrAnd(w) == combineIDs(Postings(w[1]), intersectIDs(Postings(w[2]), Postings(w[3])))

ValAndNot(w) == intersectIDs(Postings(w[1]), excludeIDs(Postings(w[2]), Postings(w[3])))

\* excludeIDs is not called on the panic of an earlier excludeIDs
ValNotNot(w) ==
    LET first == excludeIDs(Postings(w[1]), Postings(w[2]))
    IN  IF first.kind = "panic" THEN Panic ELSE excludeIDs(first, Postings(w[3]))

ValGroupOrAnd(w) == intersectIDs(combineIDs(Postings(w[1]), Postings(w[2])), Postings(w[3]))

ValNotGroup(w) == excludeIDs(Postings(w[1]), intersectIDs(Postings(w[2]), Postings(w[3])))

ValNotGroupOr(w) == combineIDs(ValNotGroup(w), Postings(w[4]))

\* C29: | binds loosest, then &, then !, each left-associative: for words with
\* non-empty postings `a | b & c` is combineIDs(P(a), intersectIDs(P(b), P(c))),
\* `a & b ! c` is intersectIDs(P(a), excludeIDs(P(b), P(c))) and `a ! b ! c` is
\* excludeIDs(excludeIDs(P(a), P(b)), P(c)); parentheses override this order:
\* `( a | b ) & c` is intersectIDs(combineIDs(P(a), P(b)), P(c)) and
\* `a ! ( b & c ) | d` is
\* combineIDs(excludeIDs(P(a), intersectIDs(P(b), P(c))), P(d)).
C29_Precedence ==
    /\ ResultIs(OrAnd, ValOrAnd)
    /\ ResultIs(AndNot, ValAndNot)
    /\ ResultIs(NotNot, ValNotNot)
    /\ ResultIs(GroupOrAnd, ValGroupOrAnd)
    /\ ResultIs(NotGroup, ValNotGroup)
    /\ ResultIs(NotGroupOr, ValNotGroupOr)

\* the two queries that the claim spells out, and the parentheses around the
\* first two or the last two of three words
PrecedenceOfThreeWords ==
    /\ ResultIs(OrAnd, ValOrAnd)
    /\ ResultIs(AndNot, ValAndNot)
    /\ ResultIs(GroupOrAnd, ValGroupOrAnd)
    /\ ResultIs(NotGroup, ValNotGroup)

\* `a ! b ! c` is evaluated from the left, and panics where the second
\* excludeIDs does
ExcludeChainFromLeft == ResultOrPanicIs(NotNot, ValNotNot)

\* `a ! a ! a` ends in a run-time panic
ExcludeChainPanics ==
    (qPc = "evaluated" /\ qClauses = NotNot(<<"a", "a", "a", "a">>)) => qHalt = "panic"

\* `a ! ( b & c ) | b` where no document holds both b and c: the result is
\* P(a), the `| b` is not evaluated
EmptyGroupEndsQuery ==
    (/\ qPc = "evaluated"
     /\ qClauses = NotGroupOr(<<"a", "b", "c", "b">>)
     /\ Len(Elems(intersectIDs(Postings("b"), Postings("c")))) = 0)
        => qHalt = "" /\ Elems(qData) = Elems(Postings("a"))

\* `a ! ( b & c ) | b` over documents "a c" and "b": the group is empty and b
\* has a uid that a has not
EmptyGroupCase ==
    /\ qPc = "evaluated"
    /\ qClauses = NotGroupOr(<<"a", "b", "c", "b">>)
    /\ qDocs[1] = <<"a", "c">> /\ qDocs[2] = <<"b">>
    /\ Elems(qData) = <<1>>

(***************************************************************************)
(* CreateDispensers.  An IdxDocument record is the sequence of the calls   *)
(* that StreamValues makes for it: the tag, the attribute and the content  *)
(* of each element, in document order.                                     *)
(***************************************************************************)
MaxDispRecs == 2

Dispensers == 1..NumServe

RECURSIVE CompressRunsOfSpaces(_)
CompressRunsOfSpaces(str) ==
    IF Len(str) < 2 THEN str
    ELSE IF str[1] = " " /\ str[2] = " " THEN CompressRunsOfSpaces(Tail(str))
    ELSE <<str[1]>> \o CompressRunsOfSpaces(Tail(str))

RECURSIVE TrimSpace(_)
\* strings.TrimSpace
TrimSpace(str) ==
    IF Len(str) > 0 /\ str[1] = " " THEN TrimSpace(Tail(str))
    ELSE IF Len(str) > 0 /\ str[Len(str)] = " " THEN TrimSpace(SubSeq(str, 1, Len(str) - 1))
    ELSE str

\* what doDispense makes of the content of a term element
dispenseContent(content) ==
    LET lower == ToLower(content)
        kept == SelectSeq(lower, LAMBDA c : IsLetter(c) \/ IsDigit(c) \/ c \in {" ", "-", "_"})
        spaced == [x \in DOMAIN kept |-> IF kept[x] \in {"_", "-"} THEN " " ELSE kept[x]]
    IN  TrimSpace(CompressRunsOfSpaces(spaced))

\* addPost(fld, term, pos, uid)
addPost(inv, fld, trm, pos, uid) ==
    LET data == IF trm \in DOMAIN inv THEN inv[trm] ELSE <<>>
    IN  (trm :> Append(data, [fld |-> fld, uid |-> uid, pos |-> pos])) @@ inv

DispContents == {<<"a">>, <<".">>, <<"N", "-">>, <<"a", "-", "_", "n">>}

DispUids == {<<"1">>, <<"2">>}

\* records of one term element, with and without an IdxUid element before it
DispRecords ==
    LET trms == {<<[tag |-> "TIAB", attr |-> <<"1">>, content |-> c]>> : c \in DispContents}
    IN  trms \cup {<<[tag |-> "IdxUid", attr |-> <<>>, content |-> u]>> \o t :
                       u \in DispUids, t \in trms}

DispStreams(n) == UNION {[1..m -> DispRecords] : m \in 1..n}

notDispVars ==
    <<setVars, unshVars, mergeVars, stashVars, queryVars, fuseVars, indexVars, promVars,
      splitVars, pathVars, lookVars, poolVars>>

InitDispense ==
    /\ SetIdle /\ UnshIdle /\ MergeIdle /\ StashIdle
    /\ QueryIdle /\ FuseIdle /\ IndexIdle /\ PromIdle /\ SplitIdle /\ PathIdle /\ LookIdle /\ PoolIdle
    /\ dAll \in DispStreams(MaxDispRecs)
    /\ dInp = [x \in DOMAIN dAll |-> x]
    /\ dPc = [w \in Dispensers |-> "recv"]
    /\ dCur = [w \in Dispensers |-> [rec |-> 0, elems |-> <<>>]]
    /\ currUID = [w \in Dispensers |-> <<>>]
    /\ inverted = <<>>
    /\ dPosted = {}
    /\ dOut = <<>>

\* `for ext := range inp`: the dispenser takes the next record
DispReceive(w) ==
    /\ dPc[w] = "recv"
    /\ dInp # <<>>
    /\ dInp' = Tail(dInp)
    /\ dCur' = [dCur EXCEPT ![w] = [rec |-> Head(dInp), elems |-> dAll[Head(dInp)]]]
    /\ dPc' = [dPc EXCEPT ![w] = IF dAll[Head(dInp)] = <<>> THEN "recv" ELSE "run"]
    /\ UNCHANGED <<dAll, currUID, inverted, dPosted, dOut>>
    /\ UNCHANGED notDispVars

\* doDispense(tag, attr, content), called by StreamValues for the next element
DoDispense(w) ==
    /\ dPc[w] = "run"
    /\ LET e == Head(dCur[w].elems)
           rest == Tail(dCur[w].elems)
           content == dispenseContent(e.content)
       IN  /\ IF e.tag = "IdxUid"
              THEN /\ currUID' = [currUID EXCEPT ![w] = e.content]
                   /\ UNCHANGED <<inverted, dPosted>>
              ELSE /\ IF content # <<>> /\ currUID[w] # <<>>
                      THEN /\ inverted' = addPost(inverted, e.tag, content, e.attr, currUID[w])
                           /\ dPosted' = dPosted \cup {dCur[w].rec}
                      ELSE UNCHANGED <<inverted, dPosted>>
                   /\ UNCHANGED currUID
           /\ dCur' = [dCur EXCEPT ![w].elems = rest]
           /\ dPc' = [dPc EXCEPT ![w] = IF rest = <<>> THEN "recv" ELSE "run"]
    /\ UNCHANGED <<dAll, dInp, dOut>>
    /\ UNCHANGED notDispVars

\* inp is closed and empty: the loop ends, wg.Done()
DispExit(w) ==
    /\ dPc[w] = "recv"
    /\ dInp = <<>>
    /\ dPc' = [dPc EXCEPT ![w] = "done"]
    /\ UNCHANGED <<dAll, dInp, dCur, currUID, inverted, dPosted, dOut>>
    /\ UNCHANGED notDispVars

\* after wg.Wait(): `for _, data := range inverted { out <- data }`, in the
\* order the map happens to give
DispSend ==
    /\ \A w \in Dispensers : dPc[w] = "done"
    /\ \E trm \in DOMAIN inverted :
           /\ \A x \in DOMAIN dOut : dOut[x].term # trm
           /\ dOut' = Append(dOut, [term |-> trm, data |-> inverted[trm]])
    /\ UNCHANGED <<dAll, dInp, dPc, dCur, currUID, inverted, dPosted>>
    /\ UNCHANGED notDispVars

NextDispense ==
    \/ \E w \in Dispensers : DispReceive(w)
    \/ \E w \in Dispensers : DoDispense(w)
    \/ \E w \in Dispensers : DispExit(w)
    \/ DispSend

SpecDispense == InitDispense /\ [][NextDispense]_vars

HasNoUid(record) == \A x \in DOMAIN record : record[x].tag # "IdxUid"

HasNoTerm(record) ==
    \A x \in DOMAIN record :
        record[x].tag # "IdxUid" => dispenseContent(record[x].content) = <<>>

\* C30: a record that has no IdxUid, or whose terms normalize to the empty
\* string, adds no posting to the inverted map, whatever records the same
\* dispenser processed before it.
C30_MissingUidIsSkipped ==
    \A r \in DOMAIN dAll : (HasNoUid(dAll[r]) \/ HasNoTerm(dAll[r])) => r \notin dPosted

\* a record whose terms normalize to the empty string adds no posting
EmptyTermIsSkipped ==
    \A r \in DOMAIN dAll : HasNoTerm(dAll[r]) => r \notin dPosted

\* a record without IdxUid adds no posting when it is the first record of its
\* dispenser, or when no record before it has an IdxUid
MissingUidIsSkippedAtFirst ==
    \A r \in DOMAIN dAll :
        (HasNoUid(dAll[r]) /\ \A q \in 1..(r - 1) : HasNoUid(dAll[q])) => r \notin dPosted

\* a record without IdxUid is skipped by a dispenser whose currUID is unset
\* and posts under the uid of an earlier record otherwise
UidOfEarlierRecord ==
    [][\A w \in Dispensers :
          (/\ dPc[w] = "run" /\ dPc'[w] # dPc[w]
           /\ HasNoUid(dAll[dCur[w].rec]) /\ ~HasNoTerm(dAll[dCur[w].rec]))
              => (dCur[w].rec \in dPosted') = (currUID[w] # <<>>)]_vars

(***************************************************************************)
(* getPostingIDs on the promoted files.  The store of one field is the     *)
(* files that xmlPromoter and processOneField write for a merged stream in *)
(* ascending term order: one set of files per IdentifierKey, the terms of  *)
(* a key being adjacent in the stream.  Terms that end in "$" go through   *)
(* the porter2 stemmer and are not asked for here.                         *)
(***************************************************************************)
\* the number of terms of the merged stream that the store is drawn from
MaxLookTerms == 6

\* the byte values of the characters of terms
ByteOf(c) ==
    CASE c = " " -> 32
      [] c = "*" -> 42
      [] c = "." -> 46
      [] IsDigit(c) -> 48 + DigitValue(c)
      [] c = "_" -> 95
      [] c = "a" -> 97
      [] c = "b" -> 98
      [] c = "n" -> 110
      [] c = "p" -> 112
      [] c = "u" -> 117

\* a comparison that takes the shorter string for the smaller one
TermLessByLength(a, b) == Len(a) < Len(b)

\* `strs[mid] < term`: Go compares strings byte by byte
TermLess(a, b) ==
    \E k \in 1..(Len(a) + 1) :
        /\ k <= Len(b)
        /\ SubSeq(a, 1, k - 1) = SubSeq(b, 1, k - 1)
        /\ (k > Len(a) \/ ByteOf(a[k]) < ByteOf(b[k]))

\* strings.HasPrefix
HasPrefix(str, pfx) == Len(pfx) <= Len(str) /\ SubSeq(str, 1, Len(pfx)) = pfx

\* strings.HasSuffix(term, "*")
HasSuffixStar(trm) == Len(trm) >= 1 /\ trm[Len(trm)] = "*"

\* the terms of the merged stream, in ascending order
LookTerms ==
    << <<"a", "n", "a">>, <<"a", "n", "a", "n">>, <<"n", "a", "a">>,
       <<"n", "a", "a", "a">>, <<"n", "a", "a", "n">>, <<"n", "a", "a", "p">>,
       <<"n", "a", "p">>, <<"p", "a", "n">> >>

\* the uid lists of one term
LookData == {<<1>>, <<2, 3>>}

\* the pos attribute of a uid in a positional field
LookAttr(uid) ==
    CASE uid = 1 -> << <<"1">> >>
      [] uid = 2 -> << <<"2">>, <<"3">> >>
      [] OTHER -> << <<"1">>, <<"3">> >>

RECURSIVE fillBucket(_, _, _, _)
\* processOneField on the terms of one key: addOnePosting for each of them
fillBucket(buf, postings, positional, n) ==
    IF n > Len(postings) THEN buf
    ELSE fillBucket(addOnePosting(buf, postings[n].term, postings[n].data,
                                  IF positional
                                  THEN [x \in DOMAIN postings[n].data |->
                                            LookAttr(postings[n].data[x])]
                                  ELSE <<>>),
                    postings, positional, n + 1)

\* the files of every key of a stream of postings
PromotedStore(postings, positional) ==
    [key \in {IdentifierKey(postings[x].term) : x \in DOMAIN postings} |->
        writeFiveFiles(topOffMaster(
            fillBucket(EmptyBuf,
                       SelectSeq(postings, LAMBDA p : IdentifierKey(p.term) = key),
                       positional, 1)))]

\* the streams of postings: any of the first n terms, each with a uid list
LookPostings(n) ==
    UNION {{[x \in 1..Cardinality(T) |->
                 LET at == CHOOSE y \in T : Cardinality({z \in T : z < y}) = x - 1
                 IN  [term |-> LookTerms[at], data |-> d[at]]] : d \in [T -> LookData]}
           : T \in (SUBSET (1..n)) \ {{}}}

\* the terms asked for: those of the stream, absent ones, and prefixes
LookQueries(n) ==
    {LookTerms[x] : x \in 1..n}
        \cup {<<"n", "a">>, <<"n", "a", "a", "0">>, <<"n", "a", "a", "b">>,
              <<"n", "a", "a", "u">>, <<"n", "a", "a", "_", "n">>, <<"a", "n", "a", "a">>}
        \cup {<<"n", "*">>, <<"n", "a", "*">>, <<"n", "a", "a", "*">>,
              <<"n", "a", "a", "n", "*">>, <<"a", "n", "a", "*">>,
              <<"a", "n", "a", "n", "*">>, <<"n", "a", "a", "b", "*">>}

RECURSIVE binarySearch(_, _, _, _)
\* `for L < R`: the index R, from 0, where the search ends
binarySearch(strs, trm, L, R) ==
    IF L < R
    THEN LET mid == (L + R) \div 2
         IN  IF TermLess(strs[mid + 1], trm)
             THEN binarySearch(strs, trm, mid + 1, R)
             ELSE binarySearch(strs, trm, L, mid)
    ELSE R

RECURSIVE scanPrefix(_, _, _)
\* `for R < numTerms && strings.HasPrefix(strs[R], term) { R++ }`
scanPrefix(strs, trm, R) ==
    IF R < Len(strs) /\ HasPrefix(strs[R + 1], trm) THEN scanPrefix(strs, trm, R + 1) ELSE R

\* size bytes of 4-byte values from byte offset of a file; NilSlice when the
\* length is zero or the file ends before
readValues(file, offset, size, width) ==
    LET n == size \div width
        from == offset \div width
    IN  IF n < 1 \/ from + n > Len(file) THEN NilSlice
        ELSE Slice(SubSeq(file, from + 1, from + n))

readPostingData(fls, offset, size) == readValues(fls.pst, offset, size, 4)

\* the file .uqi is missing when the field has no positions
readPositionIndex(fls, offset, size) ==
    IF ~fls.positional THEN NilSlice ELSE readValues(fls.uqi, offset, size, 4)

readOffsetData(fls, offset, size) ==
    IF ~fls.positional THEN NilSlice ELSE readValues(fls.ofs, offset, size, 2)

RECURSIVE sortInts(_)
sortInts(S) ==
    IF S = {} THEN <<>>
    ELSE LET least == CHOOSE x \in S : \A y \in S : x <= y
         IN  <<least>> \o sortInts(S \ {least})

\* the result of getPostingIDs: the uids and the positions of each
NoPostings == [data |-> NilSlice, arrs |-> <<>>]

\* ofst[k : k+num] for entry i of uqis, from 1
positionsOf(uqis, ofst, i) ==
    SubSeq(ofst, ((uqis[i] - uqis[1]) \div 2) + 1, (uqis[i + 1] - uqis[1]) \div 2)

RECURSIVE addPositions(_, _, _, _, _)
\* combo[uid]: the positions of every entry of data that holds uid, in the
\* order of the file
addPositions(data, uqis, ofst, uid, i) ==
    IF i > Len(uqis) - 1 THEN <<>>
    ELSE (IF data[i] = uid THEN positionsOf(uqis, ofst, i) ELSE <<>>)
             \o addPositions(data, uqis, ofst, uid, i + 1)

RECURSIVE sortPositions(_)
\* sort.Slice(posn, ...): equal positions are kept
sortPositions(posn) ==
    IF posn = <<>> THEN <<>>
    ELSE LET at == CHOOSE x \in DOMAIN posn : \A y \in DOMAIN posn : posn[x] <= posn[y]
         IN  <<posn[at]>> \o sortPositions(SubSeq(posn, 1, at - 1)
                                              \o SubSeq(posn, at + 1, Len(posn)))

\* the wild card branch, from `offset := indx[R].PostOffset`
wildCardPostings(fls, strs, trm, R, simple) ==
    LET offset == MstPost(fls.mst, R)
        last == scanPrefix(strs, trm, R)
        size == MstPost(fls.mst, last) - offset
        data == readPostingData(fls, offset, size)
        uqis == readPositionIndex(fls, offset, size + 4)
        ofst == readOffsetData(fls, uqis.a[1], uqis.a[Len(uqis.a)] - uqis.a[1])
        fused == sortInts(Range(data.a))
        combo(uid) == addPositions(data.a, uqis.a, ofst.a, uid, 1)
    IN  IF data = NilSlice THEN NoPostings
        ELSE IF simple THEN [data |-> Slice(fused), arrs |-> <<>>]
        ELSE IF uqis = NilSlice THEN NoPostings
        ELSE IF ofst = NilSlice THEN NoPostings
        ELSE [data |-> Slice(fused),
              arrs |-> [j \in 1..(Len(uqis.a) - 1) |->
                            IF j <= Len(fused) THEN sortPositions(combo(fused[j])) ELSE <<>>]]

\* the regular branch, from `offset := indx[R].PostOffset`
exactPostings(fls, R, simple) ==
    LET offset == MstPost(fls.mst, R)
        size == MstPost(fls.mst, R + 1) - offset
        data == readPostingData(fls, offset, size)
        uqis == readPositionIndex(fls, offset, size + 4)
        ofst == readOffsetData(fls, uqis.a[1], uqis.a[Len(uqis.a)] - uqis.a[1])
    IN  IF data = NilSlice THEN NoPostings
        ELSE IF simple THEN [data |-> data, arrs |-> <<>>]
        ELSE IF uqis = NilSlice THEN NoPostings
        ELSE IF ofst = NilSlice THEN NoPostings
        ELSE [data |-> data,
              arrs |-> [i \in 1..Len(uqis.a) |->
                            IF i < Len(uqis.a) THEN positionsOf(uqis.a, ofst.a, i) ELSE <<>>]]

\* the strings of the term list, cut at the offsets of the master index
termStrings(fls) == [i \in 1..((Len(fls.mst) \div 2) - 1) |-> TermRun(fls, i - 1)]

\* getPostingIDs(prom, term, field, simple) on the files of the field
lookupPostingIDs(store, trm, simple) ==
    LET key == IdentifierKey(trm)
        spaced == [x \in DOMAIN trm |-> IF trm[x] = "_" THEN " " ELSE trm[x]]
        isWildCard == HasSuffixStar(spaced) /\ spaced # <<"*">>
        tlen == Len(spaced)
        word == IF isWildCard THEN SubSeq(spaced, 1, Len(spaced) - 1) ELSE spaced
        pdlen == Len(PostingDir(word))
    IN  IF key = <<>> \/ key \notin DOMAIN store THEN NoPostings
        ELSE LET fls == store[key]
                 strs == termStrings(fls)
                 numTerms == Len(strs)
                 R == binarySearch(strs, word, 0, numTerms - 1)
             IN  IF numTerms < 1 \/ Len(fls.trm) < 1 THEN NoPostings
                 ELSE IF isWildCard /\ tlen < pdlen THEN NoPostings
                 ELSE IF isWildCard
                      THEN IF R < numTerms /\ HasPrefix(strs[R + 1], word)
                           THEN wildCardPostings(fls, strs, word, R, simple)
                           ELSE NoPostings
                 ELSE IF R < numTerms /\ strs[R + 1] = word
                      THEN exactPostings(fls, R, simple)
                      ELSE NoPostings

notLookVars ==
    <<setVars, unshVars, mergeVars, stashVars, queryVars, fuseVars, indexVars, promVars,
      splitVars, pathVars, dispVars, poolVars>>

InitLookup ==
    /\ SetIdle /\ UnshIdle /\ MergeIdle /\ StashIdle /\ QueryIdle /\ FuseIdle /\ IndexIdle
    /\ PromIdle /\ SplitIdle /\ PathIdle /\ DispIdle /\ PoolIdle
    /\ \E postings \in LookPostings(MaxLookTerms), positional \in BOOLEAN :
           lStore = [positional |-> positional, postings |-> postings,
                     files |-> PromotedStore(postings, positional)]
    /\ lTerm \in LookQueries(MaxLookTerms)
    /\ lSimple \in BOOLEAN
    /\ lPc = "start"
    /\ lRes = NoPostings

\* one call of getPostingIDs
Lookup ==
    /\ lPc = "start"
    /\ lRes' = lookupPostingIDs(lStore.files, lTerm, lSimple)
    /\ lPc' = "done"
    /\ UNCHANGED <<lStore, lTerm, lSimple>>
    /\ UNCHANGED notLookVars

SpecLookup == InitLookup /\ [][Lookup]_vars

\* the files of the key of the term asked for, NoFiles when there are none
LookBucket ==
    IF IdentifierKey(lTerm) \in DOMAIN lStore.files
    THEN lStore.files[IdentifierKey(lTerm)] ELSE NoFiles

\* the number of terms of the bucket
BucketTerms(fls) == IF fls.written THEN (Len(fls.mst) \div 2) - 1 ELSE 0

\* the call asks for uids only, or the field has positions for every uid
PositionsAtHand == lSimple \/ lStore.positional

\* the lookup of a term, no wild card
ExactLookupDone == lPc = "done" /\ ~HasSuffixStar(lTerm)

TermListsAscending ==
    lPc = "done" =>
        \A key \in DOMAIN lStore.files :
            \A i \in 0..(BucketTerms(lStore.files[key]) - 2) :
                TermLess(TermRun(lStore.files[key], i), TermRun(lStore.files[key], i + 1))

\* a term of a field without positions is not found when positions are asked
\* for: the file .uqi is missing
NoPositionsNoPostings ==
    (ExactLookupDone /\ ~PositionsAtHand) => lRes = NoPostings

\* the lookup of a prefix: the term asked for is the prefix and "*"
WildCardLookupDone == lPc = "done" /\ HasSuffixStar(lTerm)

LookPrefix == SubSeq(lTerm, 1, Len(lTerm) - 1)

\* the "must be at least N characters" test of getPostingIDs lets the prefix
\* pass
PrefixAccepted == Len(lTerm) >= Len(PostingDir(LookPrefix))

\* the uids of the postings whose term has the prefix, ascending
UidsOfPrefix(postings) ==
    sortInts(UNION {Range(postings[x].data) :
                        x \in {y \in DOMAIN postings : HasPrefix(postings[y].term, LookPrefix)}})

\* C33: a query word p* returns the ascending union, without duplicates, of
\* the uid lists of all terms of the promoted store that have the prefix p,
\* for every prefix that is not rejected as too short.
C33_WildCardLookup ==
    (WildCardLookupDone /\ PositionsAtHand /\ PrefixAccepted) =>
        Elems(lRes.data) = UidsOfPrefix(lStore.postings)

\* the prefix "ana" finds the uids of "ana" and misses those of "anan", which
\* are in the files of another key
PrefixMissesOtherKey ==
    /\ WildCardLookupDone /\ lSimple
    /\ lTerm = <<"a", "n", "a", "*">>
    /\ Len(lStore.postings) = 2
    /\ lStore.postings[1] = [term |-> <<"a", "n", "a">>, data |-> <<1>>]
    /\ lStore.postings[2] = [term |-> <<"a", "n", "a", "n">>, data |-> <<2, 3>>]
    /\ lRes.data = Slice(<<1>>)

\* a query word p* returns the ascending union of the uid lists of the terms
\* with prefix p that are in the files of the key of p
WildCardWithinKey ==
    (WildCardLookupDone /\ PositionsAtHand) =>
        Elems(lRes.data) =
            UidsOfPrefix(SelectSeq(lStore.postings,
                                   LAMBDA p : IdentifierKey(p.term) = IdentifierKey(lTerm)))

\* no prefix is rejected: the length compared counts the "*"
NoPrefixRejected == WildCardLookupDone => PrefixAccepted

(***************************************************************************)
(* The bucket files of xmlSplitter (SpecSplit).  The terms of the merged   *)
(* stream are those that the dispensers post: lower-case letters, digits   *)
(* and single spaces.                                                      *)
(***************************************************************************)
\* a term as doDispense posts it
IsPostedTerm(ident) == ident # <<>> /\ dispenseContent(ident) = ident

\* the names of the bucket files closed so far
ClosedNames == {tClosed[x].name : x \in DOMAIN tClosed}

\* the name is the first 2, 3 or 4 characters of the key, or the whole key
\* when it is shorter
IsPrefixKey(name, key) ==
    /\ HasPrefix(key, name)
    /\ Len(name) = Len(key) \/ Len(name) \in 2..4
    /\ Len(name) <= 4

\* the terms written to a file are in ascending order
FileAscending(recs) == \A x \in 1..(Len(recs) - 1) : TermLess(recs[x], recs[x + 1])

\* the record read in this step goes to the end of the file of its prefix
\* key, which is the file that was open or a file opened in this step after
\* the one that was open has been closed
WrittenToItsBucket ==
    (tPc = "loop" /\ tInp # <<>> /\ tInp' = Tail(tInp)) =>
        LET curr == Head(tInp)
        IN  IsPostedTerm(curr.Ident) =>
                /\ IsPrefixKey(fl', IdentifierKey(curr.Ident))
                /\ \/ /\ fl' = fl \/ fl = <<>>
                      /\ wrtr' = Append(wrtr, curr.Text)
                      /\ tClosed' = tClosed
                   \/ /\ fl' # fl /\ fl # <<>>
                      /\ wrtr' = <<curr.Text>>
                      /\ tClosed' = Append(tClosed, [name |-> fl, recs |-> wrtr])

\* no file is opened twice, and every file holds the terms of its own key in
\* ascending order
OpenedOnceInOrder ==
    /\ \A x \in DOMAIN tClosed, y \in DOMAIN tClosed : x # y => tClosed[x].name # tClosed[y].name
    /\ tPc = "loop" => fl \notin ClosedNames
    /\ \A x \in DOMAIN tClosed :
           /\ FileAscending(tClosed[x].recs)
           /\ \A y \in DOMAIN tClosed[x].recs :
                  IsPrefixKey(tClosed[x].name, IdentifierKey(tClosed[x].recs[y]))
    /\ FileAscending(wrtr)

\* C34: for a merged stream in ascending term order, every InvDocument is
\* written to exactly one bucket file, the one named by the 2, 3 or 4
\* character prefix key of its term; no bucket file is opened twice; the
\* terms of each file are in the ascending order of the stream.
C34_SplitterPartition == []OpenedOnceInOrder /\ [][WrittenToItsBucket]_vars

\* five files with keys of 2, 3 and 4 characters, one of them with two terms
C34_Witness ==
    /\ tPc = "done"
    /\ Len(tClosed) = 5
    /\ tClosed[1] = [name |-> <<"a", "_">>, recs |-> << <<"a", " ", "n">> >>]
    /\ tClosed[2] = [name |-> <<"a", "n", "_">>, recs |-> << <<"a", "n", " ", "a">> >>]
    /\ tClosed[3] = [name |-> <<"a", "n", "a">>, recs |-> << <<"a", "n", "a">> >>]
    /\ tClosed[4] = [name |-> <<"a", "n", "a", "n">>, recs |-> << <<"a", "n", "a", "n">> >>]
    /\ tClosed[5] = [name |-> <<"n", "a">>, recs |-> << <<"n", "a">>, <<"n", "a", "n">> >>]

(***************************************************************************)
(* The order of the fragments of one term (SpecMerge)                      *)
(***************************************************************************)
\* the shard that a fragment of a group came from
ShardOf(text) == text[1]

\* the fragments of the group come in ascending order of their shards
ShardsAscending(sibs) ==
    \A y \in DOMAIN sibs, z \in DOMAIN sibs : y < z => ShardOf(sibs[y]) <= ShardOf(sibs[z])

\* C35: the merge heap is keyed on the term and the index of the shard, so
\* the fragments of one term that come from different shards are popped and
\* added to the group of the term in ascending order of the shard index.
C35_ShardOrder ==
    /\ \A x \in DOMAIN mOut : ShardsAscending(mOut[x].Sibs)
    /\ ShardsAscending(arry)

\* three shards that hold one fragment each, of the same term: the group has
\* the fragment of the third shard before that of the second
ThirdShardBeforeSecond ==
    /\ mPc = "done"
    /\ Len(mAll) = 3
    /\ \A w \in 1..3 : Len(mAll[w]) = 1 /\ mAll[w][1].Ident = mAll[1][1].Ident
    /\ Len(mOut) = 1
    /\ mOut[1].Sibs = << <<1, 1>>, <<3, 1>>, <<2, 1>> >>

\* two shards, the first with two terms and the second with the later of
\* them: the group of that term has the fragment of the second shard first
SecondShardBeforeFirst ==
    /\ mPc = "done"
    /\ Len(mAll) = 2
    /\ Len(mAll[1]) = 2 /\ Len(mAll[2]) = 1
    /\ mAll[1][1].Ident < mAll[1][2].Ident
    /\ mAll[2][1].Ident = mAll[1][2].Ident
    /\ Len(mOut) = 2
    /\ mOut[2].Sibs = << <<2, 1>>, <<1, 2>> >>

(***************************************************************************)
(* The padding of the word counter between elements (SpecPositions)        *)
(***************************************************************************)
\* the number that the indexer wrote for a position
PositionOf(str) == ParseInt(str).value

\* the positions added to xPos in this step
NewPositions == {PositionOf(xPos'[y]) : y \in (Len(xPos) + 1)..Len(xPos')}

\* the callback has gone through one element: the counter is a multiple of
\* 100 and at least 20 more than the position of the last word of the
\* element, and the positions of the element are more than 20 after every
\* position of the elements before
PaddedAfterElement ==
    xParas' # xParas =>
        LET para == xParas'[Len(xParas')]
            last == cumulative + para.words
        IN  /\ cumulative' % 100 = 0
            /\ cumulative' >= last + 20
            /\ \A p \in NewPositions : p > cumulative /\ p <= last
            /\ \A x \in DOMAIN xPos : \A p \in NewPositions : p - PositionOf(xPos[x]) > 20

\* C36: at the end of every paragraph the word counter is advanced to a
\* multiple of 100 that is at least 20 more than the position of the last
\* word of the paragraph, so the positions of two words of different
\* paragraphs differ by more than 20.
C36_ParagraphPadding == [][PaddedAfterElement]_vars

\* a paragraph of 85 words that ends with the term, padded to 200, and the
\* first word of the next paragraph at 201
C36_Witness ==
    /\ Len(xParas) = 2
    /\ xParas[1] = [words |-> 85, at |-> <<1, 85>>]
    /\ xPos = <<Itoa(1), Itoa(85), Itoa(201)>>
    /\ cumulative = 300

(***************************************************************************)
(* The release of the key of stashRecord (SpecStash)                       *)
(***************************************************************************)
\* a worker that leaves the write in this step, however the write ended,
\* has taken its key out of inUse
ReleasedOnExit ==
    \A w \in Stashers :
        (Holding(w) /\ sPc'[w] \notin {"create", "write", "free"}) =>
            StashId(sExt[w]) \notin DOMAIN inUse'

\* a worker that finds the key in use finds the entry of a worker that is
\* writing the key at that time
NoStaleEntry ==
    \A w \in Stashers :
        (sPc[w] = "lock" /\ StashId(sExt[w]) \in DOMAIN inUse) =>
            \E v \in Stashers \ {w} :
                sPc[v] \in {"create", "write", "free"} /\ StashId(sExt[v]) = StashId(sExt[w])

\* C37: every stash that has acquired the key releases it on every way out
\* of the write (success, an error of MkdirAll or Create, an error of Flush
\* or Close), so inUse is empty once all stashes have finished and no stash
\* is held up by an entry whose writer is gone.
C37_LockReleased ==
    /\ [](AllStashed => inUse = <<>>)
    /\ []NoStaleEntry
    /\ [][ReleasedOnExit]_vars

\* the stash of the first version ended with an I/O error, the stash of the
\* second version of the same identifier was written after it, and inUse is
\* empty at the end
C37_Witness ==
    /\ AllStashed
    /\ inUse = <<>>
    /\ Len(sAll) = 2
    /\ SameKey(1, 2)
    /\ DOMAIN sOutcome = {1, 2}
    /\ sOutcome[1] = "ioerror"
    /\ sOutcome[2] = "written"
    /\ HoldsRecord(2)

(***************************************************************************)
(* CreateUIDReader, CreateFetchers and the unshuffler that follows them.   *)
(* uidReader has sent a record for every line and closed its channel; the  *)
(* records sent by the fetchers go to the input of the unshuffler, and     *)
(* uAll keeps all of them in the order of their arrival.                   *)
(***************************************************************************)
\* the number of lines of identifiers
MaxFetchLines == 2

\* the lines: an identifier with a version that is archived, one archived in
\* a gzipped file, one that is not archived, and an empty line
FetchLines == {IdentOneV2, IdentTwo, <<"3">>, IdentNone}

\* the archive: 1.xml and 2.xml.gz
FetchArchive ==
    (FilePath(IdentOne, "xml") :> Plain(LineText(1)))
        @@ (FilePath(IdentTwo, "xml.gz") :> Gzip(LineText(2)))

\* out <- XMLRecord{Index: idx, Text: file} for every line, idx from 1
uidReader(lines) == [n \in DOMAIN lines |-> [Index |-> n, Text |-> UidLine(lines[n])]]

\* wg.Wait() returns
waitGroupAny(pcs) == \E w \in DOMAIN pcs : pcs[w] = "done"

\* wg.Wait() returns: every goroutine has called wg.Done()
waitGroupDone(pcs) == \A w \in DOMAIN pcs : pcs[w] = "done"

\* the record numbered by its place on the channel
fetchSendNumbered(out, ext) == Append(out, [Index |-> Len(out) + 1, Text |-> ext.Text])

\* out <- XMLRecord{Index: ext.Index, Text: str}
fetchSend(out, ext) == Append(out, [Index |-> ext.Index, Text |-> ext.Text])

notFetchVars ==
    <<setVars, mergeVars, queryVars, fuseVars, indexVars, promVars, splitVars, pathVars,
      dispVars, lookVars>>

\* the stashers at rest, over the archive
FetchOverArchive ==
    /\ sAll = <<>> /\ sInp = <<>> /\ sZipp = FALSE /\ fZipp = FALSE
    /\ inUse = <<>> /\ files = FetchArchive /\ sPc = <<>> /\ sExt = <<>>
    /\ attempts = <<>> /\ sOutcome = <<>> /\ sOut = <<>>
    /\ fPc = "idle" /\ fLine = 0 /\ fRes = <<>>

FetchStart(lines, heapSize) ==
    /\ SetIdle /\ MergeIdle /\ QueryIdle /\ FuseIdle /\ IndexIdle /\ PromIdle /\ SplitIdle
    /\ PathIdle /\ DispIdle /\ LookIdle
    /\ FetchOverArchive
    /\ rLines = lines
    /\ rInp = uidReader(lines)
    /\ ePc = [w \in Stashers |-> "recv"]
    /\ eExt = [w \in Stashers |-> <<>>]
    /\ closes = NoCloses
    /\ uAll = <<>> /\ uInp = <<>> /\ uHeapSize = heapSize /\ hp = <<>> /\ next = 1
    /\ delay = 0 /\ uOut = <<>> /\ uPc = "recv"

InitFetch ==
    \E lines \in SeqsUpTo(FetchLines, MaxFetchLines), heapSize \in {0, 1} :
        FetchStart(lines, heapSize)

\* for ext := range inp, and str := fetchRecord(ext.Text, buf)
FetchReceive(w) ==
    /\ ePc[w] = "recv"
    /\ rInp # <<>>
    /\ rInp' = Tail(rInp)
    /\ eExt' = [eExt EXCEPT ![w] =
                   [Index |-> Head(rInp).Index,
                    Text |-> fetchRecord(files, Head(rInp).Text, fZipp)]]
    /\ ePc' = [ePc EXCEPT ![w] = "send"]
    /\ UNCHANGED <<rLines, closes, unshVars, stashVars>>
    /\ UNCHANGED notFetchVars

\* out <- XMLRecord{Index: ext.Index, Text: str}
FetchSend(w) ==
    /\ ePc[w] = "send"
    /\ uInp' = fetchSend(uInp, eExt[w])
    /\ uAll' = Append(uAll, fetchSend(uInp, eExt[w])[Len(uInp) + 1])
    /\ ePc' = [ePc EXCEPT ![w] = "recv"]
    /\ eExt' = [eExt EXCEPT ![w] = <<>>]
    /\ UNCHANGED <<rLines, rInp, closes, stashVars>>
    /\ UNCHANGED <<uHeapSize, hp, next, delay, uOut, uPc>>
    /\ UNCHANGED notFetchVars

\* inp is closed and empty: the range loop ends, wg.Done()
FetchExit(w) ==
    /\ ePc[w] = "recv"
    /\ rInp = <<>>
    /\ ePc' = [ePc EXCEPT ![w] = "done"]
    /\ UNCHANGED <<rLines, rInp, eExt, closes, unshVars, stashVars>>
    /\ UNCHANGED notFetchVars

\* the goroutine of `wg.Wait(); close(out)`
CloseFetchers ==
    /\ ePc # <<>>
    /\ waitGroupDone(ePc)
    /\ closes.fetchers = 0
    /\ closes' = [closes EXCEPT !.fetchers = 1]
    /\ UNCHANGED <<rLines, rInp, ePc, eExt, unshVars, stashVars>>
    /\ UNCHANGED notFetchVars

\* the unshuffler finds its input closed and empty
FetchedInputClosed ==
    /\ closes.fetchers > 0
    /\ UnshInputClosed

NextFetch ==
    \/ \E w \in Stashers : FetchReceive(w)
    \/ \E w \in Stashers : FetchSend(w)
    \/ \E w \in Stashers : FetchExit(w)
    \/ CloseFetchers
    \/ UnshReceive
    \/ UnshDrain
    \/ FetchedInputClosed
    \/ UnshFlush

SpecFetch == InitFetch /\ [][NextFetch]_vars

\* what the archive holds for an identifier, <<>> when it holds nothing
StoredPayload(id) ==
    IF id = IdentOne THEN LineText(1)
    ELSE IF id = IdentTwo THEN LineText(2)
    ELSE <<>>

\* the record that belongs to line n
RecordOfLine(n) == [Index |-> n, Text |-> StoredPayload(RemoveVersion(rLines[n]))]

\* C39: the fetchers send exactly one record for every identifier they
\* receive, with the index of the identifier and with an empty payload when
\* the record is not in the archive, so that the unshuffler after them
\* returns the payloads in the order of the lines of identifiers.
C39_FetchInOrder ==
    /\ \A x \in DOMAIN uAll : uAll[x].Index \in DOMAIN rLines /\ uAll[x] = RecordOfLine(uAll[x].Index)
    /\ \A x \in DOMAIN uAll, y \in DOMAIN uAll : x # y => uAll[x].Index # uAll[y].Index
    /\ closes.fetchers > 0 => Len(uAll) = Len(rLines)
    /\ uPc = "done" => uOut = [n \in DOMAIN rLines |-> RecordOfLine(n)]

\* the record of the second line arrived before that of the first, which is
\* not in the archive; the unshuffler returned them in the order of the lines
C39_Witness ==
    /\ uPc = "done"
    /\ rLines = << <<"3">>, IdentOneV2 >>
    /\ uAll = <<[Index |-> 2, Text |-> LineText(1)], [Index |-> 1, Text |-> <<>>]>>
    /\ uOut = <<[Index |-> 1, Text |-> <<>>], [Index |-> 2, Text |-> LineText(1)]>>

(***************************************************************************)
(* The end of the stages.  Every stage starts with its input channel       *)
(* filled and closed, and its sends are taken by a consumer that keeps     *)
(* reading.  A stage of one goroutine closes out with `defer close(out)`   *)
(* when it returns; a stage of several goroutines has one more goroutine   *)
(* that runs `wg.Wait(); close(out)`.  The Go scheduler runs a goroutine   *)
(* that can run, and time.Sleep returns: some step is taken as long as one *)
(* is possible.                                                            *)
(***************************************************************************)
\* two versions of one identifier for the stashers
ShutStashers ==
    /\ RestIdle /\ SetIdle /\ UnshIdle /\ MergeIdle
    /\ sAll = StreamRecords(<<[Ident |-> IdentOne, Line |-> FALSE],
                              [Ident |-> IdentOneV2, Line |-> FALSE]>>)
    /\ sZipp = FALSE
    /\ fZipp = FALSE
    /\ StashStart

\* two lines of identifiers for the fetchers and the unshuffler
ShutFetchers == FetchStart(<<IdentTwo, <<"3">>>>, 1)

\* two shards for the manifold
ShutManifold ==
    /\ RestIdle /\ SetIdle /\ UnshIdle /\ StashIdle
    /\ mAll = <<Presented(1, <<1, 2>>), Presented(2, <<2>>)>>
    /\ mInp = mAll
    /\ php = <<>>
    /\ arry = <<>>
    /\ prevIdent = EmptyIdent
    /\ rec = 0
    /\ mOut = <<>>
    /\ mChn = 1
    /\ mPc = "first"

\* a term with one fragment and a term with none for the mergers
ShutMergers ==
    /\ LateIdle
    /\ SetIdle /\ UnshIdle /\ MergeIdle /\ StashIdle /\ QueryIdle /\ IndexIdle /\ PromIdle
    /\ SplitIdle
    /\ gAll = <<[Index |-> 1, Ident |-> "ab",
                 Sibs |-> <<[Key |-> "ab",
                             Ids |-> <<[fld |-> "TIAB", attr |-> << <<"1">> >>,
                                        uid |-> <<"2">>]>>]>>],
                [Index |-> 2, Ident |-> "ab", Sibs |-> <<>>]>>
    /\ gInp = gAll
    /\ gPc = [w \in Stashers |-> "recv"]
    /\ gStr = [w \in Stashers |-> <<>>]
    /\ gOut = <<>>

\* three records in two buckets for the splitter
ShutSplitter ==
    /\ LateIdle
    /\ SetIdle /\ UnshIdle /\ MergeIdle /\ StashIdle /\ QueryIdle /\ FuseIdle /\ IndexIdle
    /\ PromIdle
    /\ tInp = [x \in 1..3 |-> [Ident |-> SplitIdents[x + 7], Text |-> SplitIdents[x + 7]]]
    /\ tPc = "loop"
    /\ fl = <<>>
    /\ wrtr = <<>>
    /\ currTag = <<>>
    /\ prevTag = <<>>
    /\ prev = <<>>
    /\ tClosed = <<>>
    /\ tOut = <<>>

InitShutdown == ShutStashers \/ ShutFetchers \/ ShutManifold \/ ShutMergers \/ ShutSplitter

\* the goroutine of `wg.Wait(); close(out)` of CreateStashers
CloseStashers ==
    /\ sPc # <<>>
    /\ waitGroupDone(sPc)
    /\ closes.stashers = 0
    /\ closes' = [closes EXCEPT !.stashers = 1]
    /\ UNCHANGED <<rLines, rInp, ePc, eExt, unshVars, stashVars>>
    /\ UNCHANGED notFetchVars

\* the goroutine of `wg.Wait(); close(out)` of CreateMergers
CloseMergers ==
    /\ gPc # <<>>
    /\ waitGroupDone(gPc)
    /\ closes.mergers = 0
    /\ closes' = [closes EXCEPT !.mergers = 1]
    /\ UNCHANGED <<rLines, rInp, ePc, eExt, unshVars, stashVars>>
    /\ UNCHANGED notFetchVars

NextShutdown ==
    \/ \E w \in DOMAIN sPc : StashReceive(w)
    \/ \E w \in DOMAIN sPc : StashLock(w)
    \/ \E w \in DOMAIN sPc : StashCreate(w)
    \/ \E w \in DOMAIN sPc : StashCreateFails(w)
    \/ \E w \in DOMAIN sPc : StashWrite(w)
    \/ \E w \in DOMAIN sPc : StashCloseFails(w)
    \/ \E w \in DOMAIN sPc : StashFree(w)
    \/ \E w \in DOMAIN sPc : StashSend(w)
    \/ \E w \in DOMAIN sPc : StashExit(w)
    \/ CloseStashers
    \/ \E w \in DOMAIN ePc : FetchReceive(w)
    \/ \E w \in DOMAIN ePc : FetchSend(w)
    \/ \E w \in DOMAIN ePc : FetchExit(w)
    \/ CloseFetchers
    \/ UnshReceive
    \/ UnshDrain
    \/ FetchedInputClosed
    \/ UnshFlush
    \/ ManifoldFirst
    \/ ManifoldStep
    \/ ManifoldLast
    \/ \E w \in DOMAIN gPc : MergeTake(w)
    \/ \E w \in DOMAIN gPc : MergeSend(w)
    \/ \E w \in DOMAIN gPc : MergeExit(w)
    \/ CloseMergers
    \/ SplitRecord
    \/ SplitFinish

SpecShutdown == InitShutdown /\ [][NextShutdown]_vars /\ WF_vars(NextShutdown)

\* the stage that runs has closed its output channel
StageClosed ==
    /\ sPc # <<>> => closes.stashers = 1
    /\ ePc # <<>> => closes.fetchers = 1 /\ uPc = "done"
    /\ mPc # "idle" => mPc = "done"
    /\ gPc # <<>> => closes.mergers = 1
    /\ tPc # "idle" => tPc = "done"

\* nothing is sent on a channel that has been closed
NoSendAfterClose ==
    /\ closes.stashers > 0 => sOut' = sOut
    /\ closes.fetchers > 0 => uAll' = uAll
    /\ closes.mergers > 0 => gOut' = gOut
    /\ uPc = "done" => uOut' = uOut
    /\ mPc = "done" => mOut' = mOut
    /\ tPc = "done" => tOut' = tOut

\* no channel is closed twice
ClosedAtMostOnce == \A stage \in DOMAIN closes : closes[stage] <= 1

\* C38: every stage (stashers, fetchers, manifold, mergers, unshuffler,
\* splitter) whose input channels have been closed and whose consumer keeps
\* reading closes its output channel in the end, once, after its last send;
\* no interleaving of the goroutines of a stage stops before that.
C38_CooperativeShutdown ==
    /\ <>[]StageClosed
    /\ []ClosedAtMostOnce
    /\ [][NoSendAfterClose]_vars

\* the stashers have sent the two identifiers and their channel is closed
C38_Witness ==
    /\ closes.stashers = 1
    /\ Len(sOut) = 2
    /\ inUse = <<>>
    /\ \A w \in Stashers : sPc[w] = "done"

(***************************************************************************)
(* Identifiers and terms that name no path: the empty ones and the ones    *)
(* that are too long.                                                      *)
(***************************************************************************)
\* the identifier of stashRecord after the version is removed
StashedIdent == RemoveVersion(aId)

\* C40: the empty identifier and an identifier of more than 64 characters
\* get an empty archive path and the record is skipped; the empty term and a
\* term of more than 256 characters get an empty postings path.
C40_DegenerateInputs ==
    /\ (aPc \in {"done", "skipped"} /\ (StashedIdent = <<>> \/ Len(StashedIdent) > MaxIdentLen)) =>
           aPc = "skipped" /\ aDir = <<>>
    /\ kPc = "done" =>
           \A x \in 1..2 :
               (kInp.terms[x] = <<>> \/ Len(kInp.terms[x]) > MaxPostingLen) =>
                   kRes[x].dpath = <<>>

\* an identifier of more than 64 characters is skipped
OverLengthSkipped ==
    (aPc \in {"done", "skipped"} /\ Len(StashedIdent) > MaxIdentLen) =>
        aPc = "skipped" /\ aDir = <<>>

\* nothing but an identifier of more than 64 characters is skipped
SkippedIsOverLength == aPc = "skipped" => Len(StashedIdent) > MaxIdentLen

\* the record without an identifier is given a directory and a file without a name
EmptyIdentStored ==
    /\ aPc = "done" /\ aId = IdentNone
    /\ aDir = <<"0", "0", "/", "0", "0", "/", "0", "0", "/">>
    /\ aBase = <<>>

\* a term without a letter or digit has no postings path
EmptyKeyNoPath ==
    kPc = "done" => \A x \in 1..2 : IdentifierKey(kInp.terms[x]) = <<>> => kRes[x].dpath = <<>>

\* MakePostingsTrie is given at most four characters
KeyAtMostFour == kPc = "done" => \A x \in 1..2 : Len(IdentifierKey(kInp.terms[x])) <= 4

\* the term of more than 256 characters has the path of its first characters
LongTermHasPath ==
    /\ kPc = "done" /\ kInp.terms[1] = LongTerm
    /\ kRes[1].dpath = <<kInp.field, <<"a", "/", "a", "/", "a">>>>
    /\ kRes[2].dpath = <<>>


====
